---------------------------- MODULE Spec2Model ----------------------------
(***************************************************************************)
(* Turn-taking and echo-suppression pipeline of transit-agent.             *)
(*                                                                         *)
(* Time is the value of time.monotonic() in milliseconds.  Texts are       *)
(* sequences of one-character strings.  asyncio tasks are atomic between   *)
(* the awaits that suspend them; the audio callback runs on its own thread *)
(* and runs once per 30 ms frame.                                          *)
(***************************************************************************)
EXTENDS Integers, Sequences, FiniteSets, TLC

\* ------------------------------------------------------------------ bounds
\* Horizon of the clock (ms); the clock stops advancing there.
MaxTime == 600
\* Granularity (ms) of the clock while no audio frame drives it.
TickMs == 150
\* Number of independent callers of speak() in SpecSpeak.
NCallers == 2
\* Number of speak() calls made in all in SpecSpeak.
MaxCalls == 3
\* Number of frames the microphone delivers.
MaxFrames == 49
\* Number of speak() calls made while the microphone runs, in SpecCapture.
MaxPlays == 1
\* Number of frames the microphone delivers in SpecSession.
MaxSessionFrames == 34
\* Number of user turns main() starts.
MaxTurns == 1
\* Step of the clock and length of the ride in Spec, ms.
RideTickMs == 15000
MaxRideTime == 60000
\* Number of transcripts the rider produces in Spec.
MaxTranscripts == 1
\* Step of the clock and length of the ride in SpecProactive, ms.
ProTickMs == 30000
MaxProTime == 150000
\* Step of the clock and length of the ride in SpecDedupe, ms; transcripts the
\* rider produces and turns main() starts in SpecDedupe.
DedupeTickMs == 4000
MaxDedupeTime == 16000
MaxDedupeTranscripts == 3
MaxDedupeTurns == 3
\* Utterances registered and transcripts put in SpecEcho.
MaxEchoRegistered == 6
MaxEchoTranscripts == 1
\* Number of frames the microphone delivers in SpecWhisper.
MaxWhisperFrames == 114

\* ------------------------------------------------- program constants (ms)
\* echo_guard.HOLDOFF_SECONDS = 0.45
HOLDOFF_MS == 450
\* echo_guard.RECENT_SPEECH_WINDOW
RECENT_SPEECH_WINDOW == 5

\* audio_input: SAMPLE_RATE, CHUNK_MS, CHUNK_SAMPLES, SILENCE_MS, MIN_UTTERANCE_MS
SAMPLE_RATE == 16000
CHUNK_MS == 30
CHUNK_SAMPLES == (SAMPLE_RATE * CHUNK_MS) \div 1000
SILENCE_MS == 700
MIN_UTTERANCE_MS == 400
\* echo_guard.ECHO_THRESHOLD = 0.70, in percent
ECHO_THRESHOLD_PCT == 70

\* -------------------------------------------------------------------- text
Space == " "
Punct == {".", ",", "!", "?", ";", ":"}

\* str.lower() on one character of the model's alphabet
LowerChar(ch) == IF ch = "A" THEN "a" ELSE IF ch = "B" THEN "b" ELSE ch

Lower(s) == [i \in 1..Len(s) |-> LowerChar(s[i])]

RECURSIVE LStrip(_)
LStrip(s) == IF s # <<>> /\ Head(s) = Space THEN LStrip(Tail(s)) ELSE s

RECURSIVE RStrip(_)
RStrip(s) ==
    IF s # <<>> /\ s[Len(s)] = Space THEN RStrip(SubSeq(s, 1, Len(s) - 1)) ELSE s

\* str.strip()
Strip(s) == RStrip(LStrip(s))

\* a speak() without the check of line 145
IsBlankNever(text) == FALSE
\* `not text or not text.strip()`
IsBlank(text) == text = <<>> \/ Strip(text) = <<>>

\* the while loop of _normalize_for_tts
RECURSIVE StripTrailingPunct(_)
StripTrailingPunct(t) ==
    IF t # <<>> /\ t[Len(t)] \in Punct
    THEN StripTrailingPunct(RStrip(SubSeq(t, 1, Len(t) - 1)))
    ELSE t

normalize_for_tts(text) ==
    IF IsBlank(text) THEN text
    ELSE LET t == StripTrailingPunct(Strip(text))
         IN  IF t # <<>> THEN t ELSE Strip(text)

\* The texts handed to speak() in the model: blank ones, one with trailing
\* punctuation, one with upper case and leading space.
SpeakTexts ==
    { <<>>, <<" ">>, <<"a", ".">>, <<" ", "B">> }

\* ------------------------------------------------------------------- state
VARIABLES
    now,                \* time.monotonic(), ms
    is_speaking,        \* echo_guard._is_speaking
    holdoff_until,      \* echo_guard._holdoff_until, ms
    recent_utterances,  \* echo_guard._recent_utterances
    speak_queue,        \* audio_output._speak_queue: [made, items]
    requests,           \* every (text, done) ever put, by request id
    loops,              \* the _speaker_loop tasks created, each [pc, item, text]
    caller_pc,          \* SpecSpeak: each caller's position in speak()
    caller_req,         \* SpecSpeak: the request a caller awaits
    calls_made,         \* SpecSpeak: speak() calls made so far
    last_end,           \* history: when set_speaking(False, holdoff=True) last completed
    stream,             \* the sd.InputStream: "none", "active" or "closed"
    pattern,            \* the audio the microphone hears: run lengths, speech first
    frame_no,           \* frames delivered to audio_callback so far
    buffer,             \* audio_callback's buffer: the frames (by number) held
    speech_started,     \* audio_callback's speech_started
    silence_frames,     \* audio_callback's silence_frames
    utterances,         \* every utterance handed to the executor, in order
    whisper_next,       \* the executor's position: next utterance to transcribe
    transcript_queue,   \* audio_input._transcript_queue: [made, items]
    yielded,            \* what the transcript stream has yielded, in order
    last_gated_frame,   \* history: the last frame delivered while gated (0: none)
    buffer_overlap,     \* history: a buffered frame was captured during playback or holdoff
    gate_dropped,       \* history: a gated callback has dropped buffered audio
    main_pc,            \* main(): where the task is suspended
    main_req,           \* main(): the speak request it awaits
    main_text,          \* main(): the text run_turn returned
    turn_lock,          \* main._turn_lock: [locked, waiters]
    display,            \* display_server._last_layout
    last_turn_end_time, \* main._last_turn_end_time, ms
    last_transcript_key,   \* main._last_transcript_key
    last_transcript_time,  \* main._last_transcript_time, ms
    elapsed,            \* get_ride_context._elapsed
    turns,              \* history: user turns started
    pro_pc,             \* proactive_loop: where the task is suspended
    pro_wake,           \* proactive_loop: when its sleep ends, ms
    pro_ctx,            \* proactive_loop: ctx of the current pass
    pro_idx,            \* proactive_loop: position in TRIGGERS of the trigger fired
    pro_text,           \* on_proactive_trigger: the text run_turn returned
    pro_req,            \* on_proactive_trigger: the speak request it awaits
    offered,            \* main(): offered
    offers_made,        \* main.offers_made_shared
    passes,             \* history: the evaluation ticks of proactive_loop
    handled,            \* history: the transcripts the stream yielded to main()
    registered,         \* history: the register_utterance calls since clear()
    whisper_log         \* history: how each run_whisper job ended, in order

echo_vars  == <<is_speaking, holdoff_until, recent_utterances>>
speak_vars == <<speak_queue, requests, loops>>
caller_vars == <<caller_pc, caller_req, calls_made>>
hist_vars == <<last_end>>
capture_vars == <<stream, pattern, frame_no, buffer, speech_started, silence_frames,
                  utterances, whisper_next, transcript_queue, yielded,
                  last_gated_frame, buffer_overlap, gate_dropped>>

sched_vars == <<main_pc, main_req, main_text, turn_lock, display,
                last_turn_end_time, last_transcript_key, last_transcript_time,
                elapsed, turns>>

pro_vars == <<pro_pc, pro_wake, pro_ctx, pro_idx, pro_text, pro_req, offered,
              offers_made>>

ghost_vars == <<passes, handled, registered, whisper_log>>

vars == <<now, echo_vars, speak_vars, caller_vars, hist_vars, capture_vars,
          sched_vars, pro_vars, ghost_vars>>

\* The event loop runs no task while main() loads the Whisper model (a
\* synchronous call inside transcripts_from_mic_queued, line 54), nor between
\* the end of main() and the shutdown asyncio.run does then.
LoopFree == main_pc \notin {"load_model", "exited"}

\* state of main() and its globals before main() runs its first step
InitSched(pc) ==
    /\ main_pc = pc
    /\ main_req = 0
    /\ main_text = <<>>
    /\ turn_lock = [locked |-> FALSE, waiters |-> <<>>]
    /\ display = "none"
    /\ last_turn_end_time = 0
    /\ last_transcript_key = <<>>
    /\ last_transcript_time = 0
    /\ elapsed = 0
    /\ turns = 0

\* proactive.py INTERVAL_SEC = 30; main.PROACTIVE_MIN_SILENCE_SEC = 45
INTERVAL_MS == 30000
PROACTIVE_MIN_SILENCE_MS == 45000

\* main.get_ride_context: the mock context of a ride `e` seconds old
Max(a, b) == IF a >= b THEN a ELSE b

get_ride_context(e) ==
    [elapsed_seconds |-> e,
     eta_seconds |-> Max(0, 180 - (e \div 10)),
     ride_duration_seconds |-> 900,
     hour_of_day |-> 14]

\* state of proactive_loop once main() has created the task (main.py 144-156)
InitPro(pc) ==
    /\ pro_pc = pc
    /\ pro_wake = now + INTERVAL_MS
    /\ pro_ctx = get_ride_context(0)
    /\ pro_idx = 0
    /\ pro_text = <<>>
    /\ pro_req = 0
    /\ offered = {}
    /\ offers_made = <<>>

InitGhost ==
    /\ passes = <<>>
    /\ handled = <<>>
    /\ registered = <<>>
    /\ whisper_log = <<>>

InitSchedOff == InitSched("off") /\ InitPro("off") /\ InitGhost

Callers == 1..NCallers

\* --------------------------------------------------------------- EchoGuard
\* is_gated(): the two tests, in the order the code makes them
\* (t is what time.monotonic() returns inside the call)
is_gated_late(t) ==
    IF is_speaking THEN TRUE
    ELSE IF t <= holdoff_until THEN TRUE
    ELSE FALSE

is_gated(t) ==
    IF is_speaking THEN TRUE
    ELSE IF t < holdoff_until THEN TRUE
    ELSE FALSE

RegisterUtteranceUnbounded(recent, text) == Append(recent, Strip(Lower(text)))
RegisterUtteranceDropsNewest(recent, text) ==
    LET appended == Append(recent, Strip(Lower(text)))
    IN  IF Len(appended) > RECENT_SPEECH_WINDOW
        THEN SubSeq(appended, 1, RECENT_SPEECH_WINDOW) ELSE appended

\* register_utterance(text): the list after the call
RegisterUtterance(recent, text) ==
    LET appended == Append(recent, Strip(Lower(text)))
    IN  IF Len(appended) > RECENT_SPEECH_WINDOW THEN Tail(appended) ELSE appended

\* ---------------------------------------------------------- speak() and loop
NoItem == 0

NewLoop == [pc |-> "get", item |-> NoItem, text |-> <<>>, raced |-> FALSE]

NewRequest(text) ==
    [text |-> text, done |-> FALSE, resolved |-> 0, stage |-> "queued",
     failed |-> FALSE, returned |-> FALSE]

\* speak() lines 147-150: the queue and the loop are made when there is no queue
LoopsAfterSpeakAlways == Append(loops, NewLoop)

LoopsAfterSpeak == IF speak_queue.made THEN loops ELSE Append(loops, NewLoop)

SpeakEnqueueFront(text) ==
    /\ loops' = LoopsAfterSpeak
    /\ requests' = Append(requests, NewRequest(text))
    /\ speak_queue' = [made |-> TRUE,
                       items |-> <<Len(requests) + 1>> \o speak_queue.items]

\* speak() lines 147-152 for a non-blank text: make the queue and the loop if
\* needed, create the future, put (text, done); the caller then awaits done.
SpeakEnqueue(text) ==
    /\ loops' = LoopsAfterSpeak
    /\ requests' = Append(requests, NewRequest(text))
    /\ speak_queue' = [made |-> TRUE,
                       items |-> Append(speak_queue.items, Len(requests) + 1)]

\* done.set_result(None) under `if not done.done()`
Resolve(req) ==
    IF req.done THEN req
    ELSE [req EXCEPT !.done = TRUE, !.resolved = @ + 1]

InService(r) == requests[r].stage = "playing"

\* _speaker_loop lines 162-174: take one item; normalise; register; gate; play
SpeakerDequeue(l) ==
    /\ LoopFree
    /\ l \in 1..Len(loops)
    /\ loops[l].pc = "get"
    /\ speak_queue.made
    /\ speak_queue.items # <<>>
    /\ LET r    == Head(speak_queue.items)
           text == normalize_for_tts(requests[r].text)
       IN  /\ speak_queue' = [speak_queue EXCEPT !.items = Tail(@)]
           /\ IF text = <<>>
              THEN /\ requests' = [requests EXCEPT ![r] =
                                     [Resolve(@) EXCEPT !.stage = "finished"]]
                   /\ UNCHANGED <<loops, echo_vars, registered>>
              ELSE /\ recent_utterances' = RegisterUtterance(recent_utterances, text)
                   /\ registered' = Append(registered, Strip(Lower(text)))
                   /\ is_speaking' = TRUE
                   /\ UNCHANGED holdoff_until
                   /\ loops' = [loops EXCEPT ![l] =
                                  [pc |-> "play", item |-> r, text |-> text,
                                   raced |-> FALSE]]
                   /\ requests' = [requests EXCEPT ![r].stage = "playing"]
    /\ UNCHANGED <<now, caller_vars, last_end>>
    /\ UNCHANGED capture_vars
    /\ UNCHANGED <<sched_vars, pro_vars>>
    /\ UNCHANGED <<passes, handled, whisper_log>>

\* done.set_result at line 190 schedules the task that awaits the future (line
\* 153) on the event loop at once; the loop runs it before it handles the end of a
\* playback that had not even started then
WokenHaveResumed ==
    \A r \in 1..Len(requests) : requests[r].done => requests[r].returned

\* where the loop goes when playback raises: `except Exception` logs and falls
\* through to the finally block
AfterPlaybackFailureDies == "dead"

AfterPlaybackFailure == "wait_level"

\* lines 175-185: playback returns or raises; stop_level_event.set(); the loop
\* then awaits the level task (at most 0.5 s)
SpeakerPlayEnds(l, ok) ==
    /\ LoopFree
    /\ WokenHaveResumed
    /\ l \in 1..Len(loops)
    /\ loops[l].pc = "play"
    /\ loops' = [loops EXCEPT ![l].pc =
                   IF ok THEN "wait_level" ELSE AfterPlaybackFailure]
    /\ requests' = [requests EXCEPT ![loops[l].item].failed = ~ok]
    /\ UNCHANGED <<now, echo_vars, speak_queue, caller_vars, hist_vars>>
    /\ UNCHANGED capture_vars
    /\ UNCHANGED <<sched_vars, pro_vars>>
    /\ UNCHANGED ghost_vars

\* line 188, first assignment of set_speaking(False, holdoff=True):
\* _is_speaking = active
SpeakerLevelJoined(l) ==
    /\ LoopFree
    /\ l \in 1..Len(loops)
    /\ loops[l].pc = "wait_level"
    /\ is_speaking' = FALSE
    /\ loops' = [loops EXCEPT ![l].pc = "set_holdoff"]
    /\ UNCHANGED <<now, holdoff_until, recent_utterances, speak_queue, requests,
                   caller_vars, hist_vars>>
    /\ UNCHANGED capture_vars
    /\ UNCHANGED <<sched_vars, pro_vars>>
    /\ UNCHANGED ghost_vars

\* line 188, second assignment: _holdoff_until = time.monotonic() + HOLDOFF_SECONDS;
\* then lines 189-190 resolve the future
SpeakerHoldoff(l) ==
    /\ LoopFree
    /\ l \in 1..Len(loops)
    /\ loops[l].pc = "set_holdoff"
    /\ holdoff_until' = now + HOLDOFF_MS
    /\ requests' = [requests EXCEPT ![loops[l].item] =
                      [Resolve(@) EXCEPT !.stage = "finished"]]
    /\ loops' = [loops EXCEPT ![l] = NewLoop]
    /\ last_end' = now
    /\ UNCHANGED <<now, is_speaking, recent_utterances, speak_queue, caller_vars>>
    /\ UNCHANGED capture_vars
    /\ UNCHANGED <<sched_vars, pro_vars>>
    /\ UNCHANGED ghost_vars

\* `await done` in speak(): the caller resumes when its future is resolved
SpeakMayReturnEarly(r) == TRUE

SpeakMayReturn(r) == requests[r].done

\* ------------------------------------------------------------ EchoGuard.is_echo
\* difflib.SequenceMatcher: the matching blocks of a[alo..ahi] and b[blo..bhi]
\* (1-based, inclusive), as <<i, j, k>> with a[i..i+k-1] = b[j..j+k-1]
Blocks(a, b, alo, ahi, blo, bhi) ==
    {t \in (alo..ahi) \X (blo..bhi) \X (1..(ahi - alo + 1)) :
        /\ t[1] + t[3] - 1 <= ahi
        /\ t[2] + t[3] - 1 <= bhi
        /\ \A d \in 0..(t[3] - 1) : a[t[1] + d] = b[t[2] + d]}

\* find_longest_match: the longest block; of those the earliest in a, then in b
LongestMatch(a, b, alo, ahi, blo, bhi) ==
    LET bs == Blocks(a, b, alo, ahi, blo, bhi)
    IN  CHOOSE t \in bs : \A u \in bs :
            \/ t[3] > u[3]
            \/ t[3] = u[3] /\ t[1] < u[1]
            \/ t[3] = u[3] /\ t[1] = u[1] /\ t[2] <= u[2]

\* get_matching_blocks: the characters matched, left and right of the longest block
RECURSIVE MatchCount(_, _, _, _, _, _)
MatchCount(a, b, alo, ahi, blo, bhi) ==
    IF alo > ahi \/ blo > bhi \/ Blocks(a, b, alo, ahi, blo, bhi) = {} THEN 0
    ELSE LET m == LongestMatch(a, b, alo, ahi, blo, bhi)
         IN  m[3] + MatchCount(a, b, alo, m[1] - 1, blo, m[2] - 1)
                  + MatchCount(a, b, m[1] + m[3], ahi, m[2] + m[3], bhi)

\* ratio() >= ECHO_THRESHOLD, ratio() = 2.0 * matches / (len(a) + len(b)), 1.0 for
\* two empty strings
RatioAtLeastThreshold(a, b) ==
    IF Len(a) + Len(b) = 0 THEN TRUE
    ELSE 200 * MatchCount(a, b, 1, Len(a), 1, Len(b))
            >= ECHO_THRESHOLD_PCT * (Len(a) + Len(b))

\* `t in utterance`
IsSubstring(t, u) ==
    \E i \in 0..(Len(u) - Len(t)) : \A d \in 1..Len(t) : u[i + d] = t[d]

is_echo(transcript) ==
    IF recent_utterances = <<>> \/ transcript = <<>> THEN FALSE
    ELSE LET t == Strip(Lower(transcript))
         IN  \E n \in 1..Len(recent_utterances) :
                \/ RatioAtLeastThreshold(t, recent_utterances[n])
                \/ Len(t) > 8 /\ IsSubstring(t, recent_utterances[n])

\* -------------------------------------------------------------- audio capture
\* What the microphone hears: run lengths in frames, speech and silence in turn,
\* speech first (a first run of 0 starts the stream with silence); silence follows.
StreamPatterns ==
    { <<20, 24>>, <<5, 24>>, <<1, 23, 1, 24>>, <<0, 2, 13, 30>> }

RECURSIVE SumTo(_, _)
SumTo(p, k) == IF k = 0 THEN 0 ELSE p[k] + SumTo(p, k - 1)

\* the voice-activity detector's verdict on frame i
IsSpeechFrame(p, i) ==
    \E k \in 1..Len(p) : k % 2 = 1 /\ SumTo(p, k - 1) < i /\ i <= SumTo(p, k)

\* What Whisper returns for an utterance (joined and stripped): nothing, the
\* agent's own words, or something else.
TranscriptTexts == { <<>>, <<"a">>, <<"c">> }

\* history: the system is audible at time t: a request is in service, or playback
\* ended less than HOLDOFF_SECONDS ago
Audible(t) ==
    \/ \E r \in 1..Len(requests) : InService(r)
    \/ last_end >= 0 /\ t < last_end + HOLDOFF_MS

\* lines 64-68: the gated branch of frame f
GatedFrameKeepsBuffer(f) ==
    /\ speech_started' = FALSE
    /\ silence_frames' = 0
    /\ last_gated_frame' = f
    /\ UNCHANGED <<buffer, utterances, buffer_overlap, gate_dropped>>

GatedFrame(f) ==
    /\ buffer' = <<>>
    /\ speech_started' = FALSE
    /\ silence_frames' = 0
    /\ last_gated_frame' = f
    /\ buffer_overlap' = FALSE
    /\ gate_dropped' = (gate_dropped \/ buffer # <<>>)
    /\ UNCHANGED utterances

SpeechFrameKeepsSilence(t, f) ==
    /\ speech_started' = TRUE
    /\ buffer' = Append(buffer, f)
    /\ buffer_overlap' = (buffer_overlap \/ Audible(t))
    /\ UNCHANGED <<silence_frames, utterances, last_gated_frame, gate_dropped>>
\* lines 82-85
SpeechFrame(t, f) ==
    /\ speech_started' = TRUE
    /\ silence_frames' = 0
    /\ buffer' = Append(buffer, f)
    /\ buffer_overlap' = (buffer_overlap \/ Audible(t))
    /\ UNCHANGED <<utterances, last_gated_frame, gate_dropped>>

\* line 89: silence_frames * CHUNK_MS >= SILENCE_MS
SilenceReachedEarly(n) == n * CHUNK_MS >= CHUNK_MS

SilenceReached(n) == n * CHUNK_MS >= SILENCE_MS

LongEnoughInFrames(buf) ==
    Len(buf) >= (MIN_UTTERANCE_MS * SAMPLE_RATE) \div 1000

\* line 94: len(to_process) >= int(MIN_UTTERANCE_MS / 1000 * SAMPLE_RATE)
LongEnough(buf) ==
    Len(buf) * CHUNK_SAMPLES >= (MIN_UTTERANCE_MS * SAMPLE_RATE) \div 1000

SilenceFrameSkipsBuffer(t, f) ==
    LET sil == silence_frames + 1
        ov  == buffer_overlap \/ Audible(t)
    IN  IF SilenceReached(sil)
        THEN /\ buffer' = <<>>
             /\ speech_started' = FALSE
             /\ silence_frames' = 0
             /\ buffer_overlap' = FALSE
             /\ utterances' =
                   IF LongEnough(buffer)
                   THEN Append(utterances, [frames |-> buffer, overlap |-> ov,
                                            gate_before |-> last_gated_frame])
                   ELSE utterances
             /\ UNCHANGED <<last_gated_frame, gate_dropped>>
        ELSE /\ silence_frames' = sil
             /\ buffer_overlap' = ov
             /\ UNCHANGED <<buffer, speech_started, utterances, last_gated_frame,
                            gate_dropped>>

\* lines 86-108: a non-speech frame while an utterance is in progress
SilenceFrame(t, f) ==
    LET buf == Append(buffer, f)
        sil == silence_frames + 1
        ov  == buffer_overlap \/ Audible(t)
    IN  IF SilenceReached(sil)
        THEN /\ buffer' = <<>>
             /\ speech_started' = FALSE
             /\ silence_frames' = 0
             /\ buffer_overlap' = FALSE
             /\ utterances' =
                   IF LongEnough(buf)
                   THEN Append(utterances, [frames |-> buf, overlap |-> ov,
                                            gate_before |-> last_gated_frame])
                   ELSE utterances
             /\ UNCHANGED <<last_gated_frame, gate_dropped>>
        ELSE /\ buffer' = buf
             /\ silence_frames' = sil
             /\ buffer_overlap' = ov
             /\ UNCHANGED <<speech_started, utterances, last_gated_frame,
                            gate_dropped>>

\* lines 109-110
IdleFrame ==
    /\ buffer' = <<>>
    /\ buffer_overlap' = FALSE
    /\ UNCHANGED <<speech_started, silence_frames, utterances, last_gated_frame,
                   gate_dropped>>

\* audio_callback, lines 60-110, on frame f at time t
audio_callback(t, f) ==
    IF is_gated(t) THEN GatedFrame(f)
    ELSE IF IsSpeechFrame(pattern, f) THEN SpeechFrame(t, f)
    ELSE IF speech_started THEN SilenceFrame(t, f)
    ELSE IdleFrame

\* The device delivers the next 30 ms frame: the clock moves on by CHUNK_MS and the
\* callback runs on the audio thread.  At most one callback falls between the two
\* assignments of a set_speaking(False, holdoff=True) in progress.
DeviceFrame(limit) ==
    /\ stream = "active"
    /\ frame_no < limit
    /\ \A l \in 1..Len(loops) : ~(loops[l].pc = "set_holdoff" /\ loops[l].raced)
    /\ now' = now + CHUNK_MS
    /\ frame_no' = frame_no + 1
    /\ loops' = [l \in 1..Len(loops) |->
                   IF loops[l].pc = "set_holdoff"
                   THEN [loops[l] EXCEPT !.raced = TRUE] ELSE loops[l]]
    /\ audio_callback(now + CHUNK_MS, frame_no + 1)
    /\ UNCHANGED <<echo_vars, speak_queue, requests, caller_vars, hist_vars>>
    /\ UNCHANGED <<stream, pattern, whisper_next, transcript_queue, yielded>>
    /\ UNCHANGED <<sched_vars, pro_vars>>
    /\ UNCHANGED ghost_vars

Frame == DeviceFrame(MaxFrames)

\* run_whisper in the single-worker executor, then put_result (lines 95-108): the
\* oldest utterance is transcribed or fails; a non-empty text is put with the time
PutResultLifo(ok, text, u) ==
    IF ok /\ text # <<>> /\ transcript_queue.made
    THEN [transcript_queue EXCEPT !.items =
             <<[text |-> text, ts |-> now, utt |-> u]>> \o @]
    ELSE transcript_queue

PutResult(ok, text, u) ==
    IF ok /\ text # <<>> /\ transcript_queue.made
    THEN [transcript_queue EXCEPT !.items =
             Append(@, [text |-> text, ts |-> now, utt |-> u])]
    ELSE transcript_queue

\* how put_result ends for a job: fut.result() raised, the text was empty, or
\* the text was put
WhisperOutcome(ok, text) ==
    IF ~ok THEN "failed" ELSE IF text = <<>> THEN "empty" ELSE "text"

TranscribeStopsOnFailure(ok, text) ==
    /\ whisper_next <= Len(utterances)
    /\ whisper_next' = whisper_next + 1
    /\ transcript_queue' =
          IF ok THEN PutResult(ok, text, whisper_next)
          ELSE [made |-> FALSE, items |-> transcript_queue.items]
    /\ whisper_log' = Append(whisper_log, WhisperOutcome(ok, text))
    /\ UNCHANGED <<now, echo_vars, speak_vars, caller_vars, hist_vars>>
    /\ UNCHANGED <<stream, pattern, frame_no, buffer, speech_started, silence_frames,
                   utterances, yielded, last_gated_frame, buffer_overlap,
                   gate_dropped>>
    /\ UNCHANGED <<sched_vars, pro_vars>>
    /\ UNCHANGED <<passes, handled, registered>>

Transcribe(ok, text) ==
    /\ whisper_next <= Len(utterances)
    /\ whisper_next' = whisper_next + 1
    /\ transcript_queue' = PutResult(ok, text, whisper_next)
    /\ whisper_log' = Append(whisper_log, WhisperOutcome(ok, text))
    /\ UNCHANGED <<now, echo_vars, speak_vars, caller_vars, hist_vars>>
    /\ UNCHANGED <<stream, pattern, frame_no, buffer, speech_started, silence_frames,
                   utterances, yielded, last_gated_frame, buffer_overlap,
                   gate_dropped>>
    /\ UNCHANGED <<sched_vars, pro_vars>>
    /\ UNCHANGED <<passes, handled, registered>>

\* lines 124-129: whether the stream yields the item it took from the queue
StreamYields(item) == ~is_echo(item.text)

\* one iteration of the generator loop with a consumer that is waiting
StreamNext ==
    /\ LoopFree
    /\ stream = "active"
    /\ transcript_queue.made
    /\ transcript_queue.items # <<>>
    /\ LET item == Head(transcript_queue.items)
       IN  /\ transcript_queue' = [transcript_queue EXCEPT !.items = Tail(@)]
           /\ yielded' = IF StreamYields(item) THEN Append(yielded, item) ELSE yielded
    /\ UNCHANGED <<now, echo_vars, speak_vars, caller_vars, hist_vars>>
    /\ UNCHANGED <<stream, pattern, frame_no, buffer, speech_started, silence_frames,
                   utterances, whisper_next, last_gated_frame, buffer_overlap,
                   gate_dropped>>
    /\ UNCHANGED <<sched_vars, pro_vars>>
    /\ UNCHANGED ghost_vars

\* lines 53-58 before the stream exists
InitCaptureOff ==
    /\ stream = "none"
    /\ pattern = <<>>
    /\ frame_no = 0
    /\ buffer = <<>>
    /\ speech_started = FALSE
    /\ silence_frames = 0
    /\ utterances = <<>>
    /\ whisper_next = 1
    /\ transcript_queue = [made |-> FALSE, items |-> <<>>]
    /\ yielded = <<>>
    /\ last_gated_frame = 0
    /\ buffer_overlap = FALSE
    /\ gate_dropped = FALSE

\* ------------------------------------------------ SpecSpeak: concurrent callers
\* speak(text) up to `await done`; a blank text returns at line 146
CallerSpeak(c, text) ==
    /\ LoopFree
    /\ caller_pc[c] = "idle"
    /\ calls_made' = calls_made + 1
    /\ IF IsBlank(text)
       THEN UNCHANGED <<speak_vars, caller_pc, caller_req>>
       ELSE /\ SpeakEnqueue(text)
            /\ caller_pc' = [caller_pc EXCEPT ![c] = "await_done"]
            /\ caller_req' = [caller_req EXCEPT ![c] = Len(requests) + 1]
    /\ UNCHANGED <<now, echo_vars, hist_vars>>
    /\ UNCHANGED capture_vars
    /\ UNCHANGED <<sched_vars, pro_vars>>
    /\ UNCHANGED ghost_vars

CallerReturn(c) ==
    /\ LoopFree
    /\ caller_pc[c] = "await_done"
    /\ SpeakMayReturn(caller_req[c])
    /\ caller_pc' = [caller_pc EXCEPT ![c] = "idle"]
    /\ requests' = [requests EXCEPT ![caller_req[c]].returned = TRUE]
    /\ UNCHANGED <<now, echo_vars, speak_queue, loops, caller_req, calls_made,
                   hist_vars>>
    /\ UNCHANGED capture_vars
    /\ UNCHANGED <<sched_vars, pro_vars>>
    /\ UNCHANGED ghost_vars

\* time passes while no audio frame drives the clock; the two assignments of
\* set_speaking are adjacent statements, no measurable time passes between them
Tick ==
    /\ now + TickMs <= MaxTime
    /\ stream # "active"
    /\ \A l \in 1..Len(loops) : loops[l].pc # "set_holdoff"
    /\ now' = now + TickMs
    /\ UNCHANGED <<echo_vars, speak_vars, caller_vars, hist_vars>>
    /\ UNCHANGED capture_vars
    /\ UNCHANGED <<sched_vars, pro_vars>>
    /\ UNCHANGED ghost_vars

InitEcho ==
    /\ is_speaking = FALSE
    /\ holdoff_until = 0
    /\ recent_utterances = <<>>

InitSpeak ==
    /\ now = 0
    /\ InitEcho
    /\ speak_queue = [made |-> FALSE, items |-> <<>>]
    /\ requests = <<>>
    /\ loops = <<>>
    /\ caller_pc = [c \in Callers |-> "idle"]
    /\ caller_req = [c \in Callers |-> NoItem]
    /\ calls_made = 0
    /\ last_end = 0 - 1
    /\ InitCaptureOff
    /\ InitSchedOff

NextSpeak ==
    \/ \E c \in Callers, text \in SpeakTexts :
          calls_made < MaxCalls /\ CallerSpeak(c, text)
    \/ \E c \in Callers : CallerReturn(c)
    \/ \E l \in 1..Len(loops) : SpeakerDequeue(l)
    \/ \E l \in 1..Len(loops), ok \in BOOLEAN : SpeakerPlayEnds(l, ok)
    \/ \E l \in 1..Len(loops) : SpeakerLevelJoined(l)
    \/ \E l \in 1..Len(loops) : SpeakerHoldoff(l)
    \/ Tick

SpecSpeak == InitSpeak /\ [][NextSpeak]_vars

\* ------------------------------------- SpecCapture: the microphone and a player
\* lines 53-58 and 112-120: the queue is made and the stream started
InitCapture ==
    /\ now = 0
    /\ InitEcho
    /\ speak_queue = [made |-> FALSE, items |-> <<>>]
    /\ requests = <<>>
    /\ loops = <<>>
    /\ caller_pc = [c \in Callers |-> "idle"]
    /\ caller_req = [c \in Callers |-> NoItem]
    /\ calls_made = 0
    /\ last_end = 0 - 1
    /\ stream = "active"
    /\ pattern \in StreamPatterns
    /\ frame_no = 0
    /\ buffer = <<>>
    /\ speech_started = FALSE
    /\ silence_frames = 0
    /\ utterances = <<>>
    /\ whisper_next = 1
    /\ transcript_queue = [made |-> TRUE, items |-> <<>>]
    /\ yielded = <<>>
    /\ last_gated_frame = 0
    /\ buffer_overlap = FALSE
    /\ gate_dropped = FALSE
    /\ InitSchedOff

NextCapture ==
    \/ Frame
    \/ \E ok \in BOOLEAN, text \in TranscriptTexts : Transcribe(ok, text)
    \/ StreamNext
    \/ calls_made < MaxPlays /\ CallerSpeak(1, <<"a", ".">>)
    \/ CallerReturn(1)
    \/ SpeakerDequeue(1)
    \/ \E ok \in BOOLEAN : SpeakerPlayEnds(1, ok)
    \/ SpeakerLevelJoined(1)
    \/ SpeakerHoldoff(1)

SpecCapture == InitCapture /\ [][NextCapture]_vars

\* ------------------------- SpecWhisper: three utterances through the executor
\* The rider speaks three times, 14 frames each, with 24 frames of silence after
\* each; nothing is played.
WhisperPattern == <<14, 24, 14, 24, 14, 24>>

InitWhisper ==
    /\ now = 0
    /\ InitEcho
    /\ speak_queue = [made |-> FALSE, items |-> <<>>]
    /\ requests = <<>>
    /\ loops = <<>>
    /\ caller_pc = [c \in Callers |-> "idle"]
    /\ caller_req = [c \in Callers |-> NoItem]
    /\ calls_made = 0
    /\ last_end = 0 - 1
    /\ stream = "active"
    /\ pattern = WhisperPattern
    /\ frame_no = 0
    /\ buffer = <<>>
    /\ speech_started = FALSE
    /\ silence_frames = 0
    /\ utterances = <<>>
    /\ whisper_next = 1
    /\ transcript_queue = [made |-> TRUE, items |-> <<>>]
    /\ yielded = <<>>
    /\ last_gated_frame = 0
    /\ buffer_overlap = FALSE
    /\ gate_dropped = FALSE
    /\ InitSchedOff

WhisperFrame == DeviceFrame(MaxWhisperFrames)

NextWhisper ==
    \/ WhisperFrame
    \/ \E ok \in BOOLEAN, text \in TranscriptTexts : Transcribe(ok, text)
    \/ StreamNext

SpecWhisper == InitWhisper /\ [][NextWhisper]_vars

\* ------------------------------------------------------------------ main()
\* main.INTRO_COMMUTER / INTRO_DEMO, and what run_turn can return (stripped)
IntroText == <<"B", ".">>
ResponseTexts == { <<>>, <<"a", ".">> }

\* main._TRANSCRIPT_DEDUPE_SEC = 8
TRANSCRIPT_DEDUPE_MS == 8000

\* asyncio.Lock.acquire by task: taken at once when free with nobody waiting,
\* else the task queues behind the waiters
LockFreeAlways(lock) == TRUE

LockFree(lock) == ~lock.locked /\ lock.waiters = <<>>

LockAcquireOn(lock, task) ==
    IF LockFree(lock)
    THEN [lock EXCEPT !.locked = TRUE]
    ELSE [lock EXCEPT !.waiters = Append(@, task)]

LockAcquire(task) == LockAcquireOn(turn_lock, task)

\* asyncio.Lock.release: unlocked; the first waiter is woken
LockRelease == [turn_lock EXCEPT !.locked = FALSE]

LockGrantedToAny(task) ==
    turn_lock.waiters # <<>> /\ Head(turn_lock.waiters) = task
\* the woken first waiter resumes inside acquire and takes the lock
LockGrantedTo(task) ==
    /\ ~turn_lock.locked
    /\ turn_lock.waiters # <<>>
    /\ Head(turn_lock.waiters) = task

LockAfterGrantOpen == [locked |-> FALSE, waiters |-> Tail(turn_lock.waiters)]
\* the lock once the first waiter has taken it
LockAfterGrant == [locked |-> TRUE, waiters |-> Tail(turn_lock.waiters)]

\* echo_guard.clear()
EchoClear ==
    /\ is_speaking' = FALSE
    /\ holdoff_until' = 0
    /\ recent_utterances' = <<>>

\* main.py 158-165: the first idle layout is pushed
MainSeedDisplay ==
    /\ main_pc = "seed"
    /\ display' = "idle"
    /\ main_pc' = "intro"
    /\ UNCHANGED <<now, echo_vars, speak_vars, caller_vars, hist_vars, capture_vars>>
    /\ UNCHANGED <<main_req, main_text, turn_lock, last_turn_end_time,
                   last_transcript_key, last_transcript_time, elapsed, turns>>
    /\ UNCHANGED pro_vars
    /\ UNCHANGED ghost_vars

\* main.py 168-172: the intro is registered, the turn lock asked for and, once
\* held, the speaking layout pushed
MainIntroRegister ==
    /\ main_pc = "intro"
    /\ recent_utterances' = RegisterUtterance(recent_utterances, IntroText)
    /\ registered' = Append(registered, Strip(Lower(IntroText)))
    /\ turn_lock' = LockAcquire("main")
    /\ IF LockFree(turn_lock)
       THEN main_pc' = "intro_layout" /\ display' = "speaking"
       ELSE main_pc' = "intro_wait_lock" /\ UNCHANGED display
    /\ UNCHANGED <<now, is_speaking, holdoff_until, speak_vars, caller_vars,
                   hist_vars, capture_vars>>
    /\ UNCHANGED <<main_req, main_text, last_turn_end_time,
                   last_transcript_key, last_transcript_time, elapsed, turns>>
    /\ UNCHANGED pro_vars
    /\ UNCHANGED <<passes, handled, whisper_log>>

MainIntroLockGranted ==
    /\ main_pc = "intro_wait_lock"
    /\ LockGrantedTo("main")
    /\ turn_lock' = LockAfterGrant
    /\ main_pc' = "intro_layout"
    /\ display' = "speaking"
    /\ UNCHANGED <<now, echo_vars, speak_vars, caller_vars, hist_vars, capture_vars>>
    /\ UNCHANGED <<main_req, main_text, last_turn_end_time,
                   last_transcript_key, last_transcript_time, elapsed, turns>>
    /\ UNCHANGED pro_vars
    /\ UNCHANGED ghost_vars

\* main.py 173: speak(intro_text) up to `await done`
MainIntroSpeak ==
    /\ main_pc = "intro_layout"
    /\ SpeakEnqueue(IntroText)
    /\ main_req' = Len(requests) + 1
    /\ main_pc' = "intro_await_done"
    /\ UNCHANGED <<now, echo_vars, caller_vars, hist_vars, capture_vars>>
    /\ UNCHANGED <<main_text, turn_lock, display, last_turn_end_time,
                   last_transcript_key, last_transcript_time, elapsed, turns>>
    /\ UNCHANGED pro_vars
    /\ UNCHANGED ghost_vars

\* main.py 173-180: speak returns; the end of the turn is stamped, the lock
\* released and the idle layout pushed
MainIntroDone ==
    /\ main_pc = "intro_await_done"
    /\ SpeakMayReturn(main_req)
    /\ requests' = [requests EXCEPT ![main_req].returned = TRUE]
    /\ last_turn_end_time' = now
    /\ turn_lock' = LockRelease
    /\ display' = "idle"
    /\ main_pc' = "intro_idle"
    /\ UNCHANGED <<now, echo_vars, speak_queue, loops, caller_vars, hist_vars,
                   capture_vars>>
    /\ UNCHANGED <<main_req, main_text, last_transcript_key, last_transcript_time,
                   elapsed, turns>>
    /\ UNCHANGED pro_vars
    /\ UNCHANGED ghost_vars

\* main.py 183-185 and audio_input.py 53: echo_guard.clear(); the transcript
\* queue is made; the Whisper model starts loading
MainClear ==
    /\ main_pc = "intro_idle"
    /\ EchoClear
    /\ transcript_queue' = [made |-> TRUE, items |-> <<>>]
    /\ main_pc' = "load_model"
    /\ UNCHANGED <<now, speak_vars, caller_vars, hist_vars>>
    /\ UNCHANGED <<stream, pattern, frame_no, buffer, speech_started, silence_frames,
                   utterances, whisper_next, yielded, last_gated_frame,
                   buffer_overlap, gate_dropped>>
    /\ UNCHANGED <<main_req, main_text, turn_lock, display, last_turn_end_time,
                   last_transcript_key, last_transcript_time, elapsed, turns>>
    /\ offers_made' = <<>>
    /\ UNCHANGED <<pro_pc, pro_wake, pro_ctx, pro_idx, pro_text, pro_req, offered>>
    /\ registered' = <<>>
    /\ UNCHANGED <<passes, handled, whisper_log>>

\* audio_input.py 54-120: the model is loaded and the input stream started
MainStartStream ==
    /\ main_pc = "load_model"
    /\ stream' = "active"
    /\ main_pc' = "next"
    /\ UNCHANGED <<now, echo_vars, speak_vars, caller_vars, hist_vars>>
    /\ UNCHANGED <<pattern, frame_no, buffer, speech_started, silence_frames,
                   utterances, whisper_next, transcript_queue, yielded,
                   last_gated_frame, buffer_overlap, gate_dropped>>
    /\ UNCHANGED <<main_req, main_text, turn_lock, display, last_turn_end_time,
                   last_transcript_key, last_transcript_time, elapsed, turns>>
    /\ UNCHANGED pro_vars
    /\ UNCHANGED ghost_vars

\* a dedupe that remembers every transcript it has processed, not just the last
transcript_seen_recently_any(transcript, t) ==
    LET key == Strip(Lower(transcript))
    IN  \/ key = <<>>
        \/ \E i \in 1..Len(handled) :
              /\ handled[i].started
              /\ handled[i].key = key
              /\ (t - handled[i].at) < TRANSCRIPT_DEDUPE_MS
\* main._transcript_seen_recently at time t
transcript_seen_recently(transcript, t) ==
    LET key == Strip(Lower(transcript))
    IN  IF key = <<>> THEN TRUE
        ELSE IF key = last_transcript_key
                /\ (t - last_transcript_time) < TRANSCRIPT_DEDUPE_MS THEN TRUE
        ELSE FALSE

\* audio_input.py 124-129 and main.py 187-208: the stream takes the next item and
\* drops it as echo or yields it; main drops a duplicate, or marks the transcript,
\* moves the ride on by 60 s and asks for the turn lock; holding it, it calls run_turn
NextTranscript(limit) ==
    /\ main_pc = "next"
    /\ turns < limit
    /\ stream = "active"
    /\ transcript_queue.items # <<>>
    /\ LET item == Head(transcript_queue.items)
           out  == StreamYields(item)
           go   == out /\ ~transcript_seen_recently(item.text, now)
       IN  /\ transcript_queue' = [transcript_queue EXCEPT !.items = Tail(@)]
           /\ yielded' = IF out THEN Append(yielded, item) ELSE yielded
           /\ handled' = IF out
                         THEN Append(handled, [key |-> Strip(Lower(item.text)),
                                               ts |-> item.ts, at |-> now,
                                               started |-> go])
                         ELSE handled
           /\ IF go
              THEN /\ last_transcript_key' = Strip(Lower(item.text))
                   /\ last_transcript_time' = now
                   /\ elapsed' = elapsed + 60
                   /\ turns' = turns + 1
                   /\ turn_lock' = LockAcquire("main")
                   /\ main_pc' = IF LockFree(turn_lock)
                                 THEN "turn_run" ELSE "turn_wait_lock"
              ELSE UNCHANGED <<last_transcript_key, last_transcript_time, elapsed,
                               turns, turn_lock, main_pc>>
    /\ UNCHANGED <<now, echo_vars, speak_vars, caller_vars, hist_vars>>
    /\ UNCHANGED <<stream, pattern, frame_no, buffer, speech_started, silence_frames,
                   utterances, whisper_next, last_gated_frame, buffer_overlap,
                   gate_dropped>>
    /\ UNCHANGED <<main_req, main_text, display, last_turn_end_time>>
    /\ UNCHANGED pro_vars
    /\ UNCHANGED <<passes, registered, whisper_log>>

MainNextTranscript == NextTranscript(MaxTurns)

MainTurnLockGranted ==
    /\ main_pc = "turn_wait_lock"
    /\ LockGrantedTo("main")
    /\ turn_lock' = LockAfterGrant
    /\ main_pc' = "turn_run"
    /\ UNCHANGED <<now, echo_vars, speak_vars, caller_vars, hist_vars, capture_vars>>
    /\ UNCHANGED <<main_req, main_text, display, last_turn_end_time,
                   last_transcript_key, last_transcript_time, elapsed, turns>>
    /\ UNCHANGED pro_vars
    /\ UNCHANGED ghost_vars

\* main.py 208-220: run_turn returns text; a non-empty text gets the speaking
\* layout, an empty one goes straight to the idle layout
MainRunTurnReturns(text) ==
    /\ main_pc = "turn_run"
    /\ main_text' = text
    /\ IF text # <<>>
       THEN display' = "speaking" /\ main_pc' = "turn_layout"
       ELSE display' = "idle" /\ main_pc' = "turn_idle"
    /\ UNCHANGED <<now, echo_vars, speak_vars, caller_vars, hist_vars, capture_vars>>
    /\ UNCHANGED <<main_req, turn_lock, last_turn_end_time,
                   last_transcript_key, last_transcript_time, elapsed, turns>>
    /\ UNCHANGED pro_vars
    /\ UNCHANGED ghost_vars

\* main.py 212: speak(text) up to `await done`
MainTurnSpeak ==
    /\ main_pc = "turn_layout"
    /\ SpeakEnqueue(main_text)
    /\ main_req' = Len(requests) + 1
    /\ main_pc' = "turn_await_done"
    /\ UNCHANGED <<now, echo_vars, caller_vars, hist_vars, capture_vars>>
    /\ UNCHANGED <<main_text, turn_lock, display, last_turn_end_time,
                   last_transcript_key, last_transcript_time, elapsed, turns>>
    /\ UNCHANGED pro_vars
    /\ UNCHANGED ghost_vars

\* main.py 212-220: speak returns; the idle layout is pushed
MainTurnSpoken ==
    /\ main_pc = "turn_await_done"
    /\ SpeakMayReturn(main_req)
    /\ requests' = [requests EXCEPT ![main_req].returned = TRUE]
    /\ display' = "idle"
    /\ main_pc' = "turn_idle"
    /\ UNCHANGED <<now, echo_vars, speak_queue, loops, caller_vars, hist_vars,
                   capture_vars>>
    /\ UNCHANGED <<main_req, main_text, turn_lock, last_turn_end_time,
                   last_transcript_key, last_transcript_time, elapsed, turns>>
    /\ UNCHANGED pro_vars
    /\ UNCHANGED ghost_vars

\* main.py 221: the end of the turn is stamped and the lock released
MainTurnEnd ==
    /\ main_pc = "turn_idle"
    /\ last_turn_end_time' = now
    /\ turn_lock' = LockRelease
    /\ main_pc' = "next"
    /\ UNCHANGED <<now, echo_vars, speak_vars, caller_vars, hist_vars, capture_vars>>
    /\ UNCHANGED <<main_req, main_text, display, last_transcript_key,
                   last_transcript_time, elapsed, turns>>
    /\ UNCHANGED pro_vars
    /\ UNCHANGED ghost_vars

StreamStopOnly ==
    /\ stream' = "closed"
    /\ transcript_queue' = transcript_queue

\* audio_input.py 132-135, the generator's finally: the stream is stopped and
\* closed and the queue reference dropped
StreamTeardown ==
    /\ stream' = "closed"
    /\ transcript_queue' = [made |-> FALSE, items |-> <<>>]

\* main.py 223-225, main's finally: the proactive task is cancelled
CancelProactive == pro_pc' = IF pro_pc = "off" THEN "off" ELSE "cancelled"

\* main.py 208 raising: the exception leaves `async with` (the lock is released)
\* and the transcript loop, and main's finally (223-231) runs, all without an
\* await; the generator is left suspended at its yield
MainRunTurnRaises ==
    /\ main_pc = "turn_run"
    /\ main_pc' = "exited"
    /\ turn_lock' = [locked |-> FALSE, waiters |-> <<>>]
    /\ CancelProactive
    /\ UNCHANGED <<now, echo_vars, speak_vars, caller_vars, hist_vars, capture_vars>>
    /\ UNCHANGED <<main_req, main_text, display, last_turn_end_time,
                   last_transcript_key, last_transcript_time, elapsed, turns>>
    /\ UNCHANGED <<pro_wake, pro_ctx, pro_idx, pro_text, pro_req, offered,
                   offers_made>>
    /\ UNCHANGED ghost_vars

\* main() is cancelled (Ctrl-C) while it waits for the next transcript: the
\* CancelledError is raised inside the generator at audio_input.py 124, the
\* generator's finally runs, then main's finally, all without an await; a
\* proactive turn in progress leaves its `async with` when it is cancelled
MainCancelled ==
    /\ main_pc = "next"
    /\ stream = "active"
    /\ main_pc' = "exited"
    /\ StreamTeardown
    /\ CancelProactive
    /\ turn_lock' = [locked |-> FALSE, waiters |-> <<>>]
    /\ UNCHANGED <<now, echo_vars, speak_vars, caller_vars, hist_vars>>
    /\ UNCHANGED <<pattern, frame_no, buffer, speech_started, silence_frames,
                   utterances, whisper_next, yielded, last_gated_frame,
                   buffer_overlap, gate_dropped>>
    /\ UNCHANGED <<main_req, main_text, display, last_turn_end_time,
                   last_transcript_key, last_transcript_time, elapsed, turns>>
    /\ UNCHANGED <<pro_wake, pro_ctx, pro_idx, pro_text, pro_req, offered,
                   offers_made>>
    /\ UNCHANGED ghost_vars

\* _speaker_loop when its task is cancelled: at the queue (162) it just ends; in
\* playback (175-179) the CancelledError passes `except Exception`, the finally
\* awaits the level task, which is cancelled too, and set_speaking(False) at 188
\* is not reached, while the player thread or process plays on ("orphaned")
CancelledLoop(loop) ==
    [loop EXCEPT !.pc = IF loop.pc = "play" THEN "orphaned" ELSE "cancelled"]

\* main.py 235, asyncio.run after main() has ended: the tasks that are left are
\* cancelled and the generators that are still open are closed
RunnerShutdown ==
    /\ main_pc = "exited"
    /\ \A l \in 1..Len(loops) : loops[l].pc # "set_holdoff"
    /\ main_pc' = "finished"
    /\ loops' = [l \in 1..Len(loops) |-> CancelledLoop(loops[l])]
    /\ IF stream = "active" THEN StreamTeardown
       ELSE UNCHANGED <<stream, transcript_queue>>
    /\ UNCHANGED <<now, echo_vars, speak_queue, requests, caller_vars, hist_vars>>
    /\ UNCHANGED <<pattern, frame_no, buffer, speech_started, silence_frames,
                   utterances, whisper_next, yielded, last_gated_frame,
                   buffer_overlap, gate_dropped>>
    /\ UNCHANGED <<main_req, main_text, turn_lock, display, last_turn_end_time,
                   last_transcript_key, last_transcript_time, elapsed, turns>>
    /\ UNCHANGED pro_vars
    /\ UNCHANGED ghost_vars

\* main() has ended and asyncio.run has returned
SessionEnded == main_pc = "finished"

\* main() ends: by the exception of a turn or by cancellation
MainExits == main_pc # "exited" /\ main_pc' = "exited"

\* --------------------------------------------------------- proactive_loop
\* proactive.TRIGGERS, in order, and each trigger's condition
TRIGGERS == <<"boarding", "long_ride", "pre_arrival", "nighttime", "mid_ride_silence">>

Condition(key, ctx) ==
    CASE key = "boarding" -> ctx.elapsed_seconds < 15
      [] key = "long_ride" -> ctx.ride_duration_seconds > 600 /\ ctx.elapsed_seconds < 120
      [] key = "pre_arrival" -> ctx.eta_seconds < 180
      [] key = "nighttime" -> ctx.hour_of_day > 20 \/ ctx.hour_of_day < 6
      [] key = "mid_ride_silence" -> ctx.elapsed_seconds > 300

proactive_can_run_always(t, lte) == TRUE
\* main._proactive_can_run at time t with _last_turn_end_time = lte
proactive_can_run(t, lte) == (t - lte) >= PROACTIVE_MIN_SILENCE_MS

\* llm.add_proactive_offer
add_proactive_offer(made, key) ==
    IF \E i \in 1..Len(made) : made[i] = key THEN made ELSE Append(made, key)

\* proactive.py 49-55: the first trigger at position i or later that is not offered
\* yet, whose condition holds on ctx and that may run now; 0 when there is none
NotOfferedAlways(key) == TRUE

\* proactive.py 50-51: `if key in offered: continue`
NotOffered(key) == key \notin offered

NextTrigger(i, ctx, lte) ==
    LET S == { k \in i..Len(TRIGGERS) :
                 /\ NotOffered(TRIGGERS[k])
                 /\ Condition(TRIGGERS[k], ctx)
                 /\ proactive_can_run(now, lte) }
    IN  IF S = {} THEN 0 ELSE CHOOSE k \in S : \A j \in S : k <= j

AfterOfferForgets(set, key) == set
\* proactive.py 56: offered.add(key)
AfterOffer(set, key) == set \cup {key}

\* proactive.py 49-59 and main.py 87-90: the for loop goes on from position i; a
\* trigger that fires is marked offered and on_proactive_trigger asks for the turn
\* lock; holding it, it records the offer and calls run_turn.  With no trigger left
\* the loop sleeps again.
ProScanFrom(i, ctx, lte, lock, log) ==
    LET k == NextTrigger(i, ctx, lte)
    IN  IF k = 0
        THEN /\ pro_pc' = "sleep"
             /\ pro_wake' = now + INTERVAL_MS
             /\ turn_lock' = lock
             /\ passes' = log
             /\ UNCHANGED <<pro_idx, offered, offers_made>>
        ELSE /\ offered' = AfterOffer(offered, TRIGGERS[k])
             /\ passes' = [log EXCEPT ![Len(log)].fired = Append(@, TRIGGERS[k])]
             /\ pro_idx' = k
             /\ turn_lock' = LockAcquireOn(lock, "pro")
             /\ IF LockFree(lock)
                THEN /\ pro_pc' = "run"
                     /\ offers_made' = add_proactive_offer(offers_made, TRIGGERS[k])
                ELSE /\ pro_pc' = "wait_lock"
                     /\ UNCHANGED offers_made
             /\ UNCHANGED pro_wake

\* the record of an evaluation tick: the gate at line 46, the ride's age, the
\* keys offered before it, and the keys whose handler the tick has invoked
NewPass(gate) ==
    [gate |-> gate, e |-> elapsed, before |-> offered, fired |-> <<>>]

\* proactive.py 45-48: the sleep is over; unless a turn ended too recently, the
\* context is read and the triggers are gone through
ProWake ==
    /\ LoopFree
    /\ pro_pc = "sleep"
    /\ now >= pro_wake
    /\ IF ~proactive_can_run(now, last_turn_end_time)
       THEN /\ pro_wake' = now + INTERVAL_MS
            /\ passes' = Append(passes, NewPass(FALSE))
            /\ UNCHANGED <<pro_pc, pro_ctx, pro_idx, offered, offers_made, turn_lock>>
       ELSE /\ pro_ctx' = get_ride_context(elapsed)
            /\ ProScanFrom(1, get_ride_context(elapsed), last_turn_end_time, turn_lock,
                           Append(passes, NewPass(TRUE)))
    /\ UNCHANGED <<now, echo_vars, speak_vars, caller_vars, hist_vars, capture_vars>>
    /\ UNCHANGED <<main_pc, main_req, main_text, display, last_turn_end_time,
                   last_transcript_key, last_transcript_time, elapsed, turns>>
    /\ UNCHANGED <<pro_text, pro_req>>
    /\ UNCHANGED <<handled, registered, whisper_log>>

\* main.py 87-90: the lock is granted to the waiting proactive turn
ProLockGranted ==
    /\ LoopFree
    /\ pro_pc = "wait_lock"
    /\ LockGrantedTo("pro")
    /\ turn_lock' = LockAfterGrant
    /\ offers_made' = add_proactive_offer(offers_made, TRIGGERS[pro_idx])
    /\ pro_pc' = "run"
    /\ UNCHANGED <<now, echo_vars, speak_vars, caller_vars, hist_vars, capture_vars>>
    /\ UNCHANGED <<main_pc, main_req, main_text, display, last_turn_end_time,
                   last_transcript_key, last_transcript_time, elapsed, turns>>
    /\ UNCHANGED <<pro_wake, pro_ctx, pro_idx, pro_text, pro_req, offered>>
    /\ UNCHANGED ghost_vars

\* main.py 90-94: run_turn returns text
ProRunTurnReturns(text) ==
    /\ LoopFree
    /\ pro_pc = "run"
    /\ pro_text' = text
    /\ IF text # <<>>
       THEN display' = "speaking" /\ pro_pc' = "layout"
       ELSE display' = "idle" /\ pro_pc' = "idle"
    /\ UNCHANGED <<now, echo_vars, speak_vars, caller_vars, hist_vars, capture_vars>>
    /\ UNCHANGED <<main_pc, main_req, main_text, turn_lock, last_turn_end_time,
                   last_transcript_key, last_transcript_time, elapsed, turns>>
    /\ UNCHANGED <<pro_wake, pro_ctx, pro_idx, pro_req, offered, offers_made>>
    /\ UNCHANGED ghost_vars

\* proactive_loop without the try of proactive.py 58-61: the exception of the
\* handler ends the loop's task
ProRunTurnRaisesEndsLoop ==
    /\ LoopFree
    /\ pro_pc = "run"
    /\ pro_pc' = "cancelled"
    /\ turn_lock' = LockRelease
    /\ UNCHANGED <<now, echo_vars, speak_vars, caller_vars, hist_vars, capture_vars>>
    /\ UNCHANGED <<main_pc, main_req, main_text, display, last_turn_end_time,
                   last_transcript_key, last_transcript_time, elapsed, turns>>
    /\ UNCHANGED <<pro_wake, pro_ctx, pro_idx, pro_text, pro_req, offered,
                   offers_made>>
    /\ UNCHANGED ghost_vars
\* main.py 90 raising: the lock is released, proactive.py 60-61 logs the exception
\* and the for loop goes on with the next trigger
ProRunTurnRaises ==
    /\ LoopFree
    /\ pro_pc = "run"
    /\ ProScanFrom(pro_idx + 1, pro_ctx, last_turn_end_time, LockRelease, passes)
    /\ UNCHANGED <<now, echo_vars, speak_vars, caller_vars, hist_vars, capture_vars>>
    /\ UNCHANGED <<main_pc, main_req, main_text, display, last_turn_end_time,
                   last_transcript_key, last_transcript_time, elapsed, turns>>
    /\ UNCHANGED <<pro_ctx, pro_text, pro_req>>
    /\ UNCHANGED <<handled, registered, whisper_log>>

\* main.py 93: speak(text) up to `await done`
ProSpeak ==
    /\ LoopFree
    /\ pro_pc = "layout"
    /\ SpeakEnqueue(pro_text)
    /\ pro_req' = Len(requests) + 1
    /\ pro_pc' = "await_done"
    /\ UNCHANGED <<now, echo_vars, caller_vars, hist_vars, capture_vars>>
    /\ UNCHANGED sched_vars
    /\ UNCHANGED <<pro_wake, pro_ctx, pro_idx, pro_text, offered, offers_made>>
    /\ UNCHANGED ghost_vars

\* main.py 93-94: speak returns; the idle layout is pushed
ProSpoken ==
    /\ LoopFree
    /\ pro_pc = "await_done"
    /\ SpeakMayReturn(pro_req)
    /\ requests' = [requests EXCEPT ![pro_req].returned = TRUE]
    /\ display' = "idle"
    /\ pro_pc' = "idle"
    /\ UNCHANGED <<now, echo_vars, speak_queue, loops, caller_vars, hist_vars,
                   capture_vars>>
    /\ UNCHANGED <<main_pc, main_req, main_text, turn_lock, last_turn_end_time,
                   last_transcript_key, last_transcript_time, elapsed, turns>>
    /\ UNCHANGED <<pro_wake, pro_ctx, pro_idx, pro_text, pro_req, offered,
                   offers_made>>
    /\ UNCHANGED ghost_vars

\* main.py 95 and proactive.py 49-59: the end of the turn is stamped, the lock
\* released, and the for loop goes on with the next trigger
ProTurnEnd ==
    /\ LoopFree
    /\ pro_pc = "idle"
    /\ last_turn_end_time' = now
    /\ ProScanFrom(pro_idx + 1, pro_ctx, now, LockRelease, passes)
    /\ UNCHANGED <<now, echo_vars, speak_vars, caller_vars, hist_vars, capture_vars>>
    /\ UNCHANGED <<main_pc, main_req, main_text, display,
                   last_transcript_key, last_transcript_time, elapsed, turns>>
    /\ UNCHANGED <<pro_ctx, pro_text, pro_req>>
    /\ UNCHANGED <<handled, registered, whisper_log>>

\* --------------------------- SpecSession: main(), the speaker loop, the microphone
InitSession ==
    /\ now = 0
    /\ InitEcho
    /\ speak_queue = [made |-> FALSE, items |-> <<>>]
    /\ requests = <<>>
    /\ loops = <<>>
    /\ caller_pc = [c \in Callers |-> "idle"]
    /\ caller_req = [c \in Callers |-> NoItem]
    /\ calls_made = 0
    /\ last_end = 0 - 1
    /\ stream = "none"
    /\ pattern \in StreamPatterns
    /\ frame_no = 0
    /\ buffer = <<>>
    /\ speech_started = FALSE
    /\ silence_frames = 0
    /\ utterances = <<>>
    /\ whisper_next = 1
    /\ transcript_queue = [made |-> FALSE, items |-> <<>>]
    /\ yielded = <<>>
    /\ last_gated_frame = 0
    /\ buffer_overlap = FALSE
    /\ gate_dropped = FALSE
    /\ InitSched("seed")
    /\ InitPro("sleep")
    /\ InitGhost

SessionFrame == DeviceFrame(MaxSessionFrames)

NextSession ==
    \/ Tick
    \/ MainSeedDisplay
    \/ MainIntroRegister
    \/ MainIntroSpeak
    \/ MainIntroDone
    \/ MainClear
    \/ MainStartStream
    \/ SessionFrame
    \/ \E ok \in BOOLEAN, text \in TranscriptTexts : Transcribe(ok, text)
    \/ MainNextTranscript
    \/ \E text \in ResponseTexts : MainRunTurnReturns(text)
    \/ MainRunTurnRaises
    \/ MainCancelled
    \/ RunnerShutdown
    \/ MainTurnSpeak
    \/ MainTurnSpoken
    \/ MainTurnEnd
    \/ SpeakerDequeue(1)
    \/ \E ok \in BOOLEAN : SpeakerPlayEnds(1, ok)
    \/ SpeakerLevelJoined(1)
    \/ SpeakerHoldoff(1)

SpecSession == InitSession /\ [][NextSession]_vars

\* ------------------ Spec: main(), proactive_loop and the speaker loop over a ride
\* time.monotonic() when main() starts
StartTimes == { 0, 45000 }

\* time passes on the scale of the proactive interval
RideTick ==
    /\ now + RideTickMs <= MaxRideTime
    /\ \A l \in 1..Len(loops) : loops[l].pc # "set_holdoff"
    /\ now' = now + RideTickMs
    /\ UNCHANGED <<echo_vars, speak_vars, caller_vars, hist_vars>>
    /\ UNCHANGED capture_vars
    /\ UNCHANGED <<sched_vars, pro_vars>>
    /\ UNCHANGED ghost_vars

\* audio_input.py 95-108: an utterance of the rider has been transcribed and
\* put_result puts its non-empty text with the time
TranscriptArrivesUpTo(text, limit) ==
    /\ LoopFree
    /\ stream = "active"
    /\ whisper_next <= limit
    /\ text # <<>>
    /\ whisper_next' = whisper_next + 1
    /\ transcript_queue' = PutResult(TRUE, text, 0)
    /\ UNCHANGED <<now, echo_vars, speak_vars, caller_vars, hist_vars>>
    /\ UNCHANGED <<stream, pattern, frame_no, buffer, speech_started, silence_frames,
                   utterances, yielded, last_gated_frame, buffer_overlap,
                   gate_dropped>>
    /\ UNCHANGED <<sched_vars, pro_vars>>
    /\ UNCHANGED ghost_vars

TranscriptArrives(text) == TranscriptArrivesUpTo(text, MaxTranscripts)

Init ==
    /\ now \in StartTimes
    /\ InitEcho
    /\ speak_queue = [made |-> FALSE, items |-> <<>>]
    /\ requests = <<>>
    /\ loops = <<>>
    /\ caller_pc = [c \in Callers |-> "idle"]
    /\ caller_req = [c \in Callers |-> NoItem]
    /\ calls_made = 0
    /\ last_end = 0 - 1
    /\ InitCaptureOff
    /\ InitSched("seed")
    /\ InitPro("sleep")
    /\ InitGhost

Next ==
    \/ RideTick
    \/ MainSeedDisplay
    \/ MainIntroRegister
    \/ MainIntroLockGranted
    \/ MainIntroSpeak
    \/ MainIntroDone
    \/ MainClear
    \/ MainStartStream
    \/ \E text \in TranscriptTexts : TranscriptArrives(text)
    \/ MainNextTranscript
    \/ MainTurnLockGranted
    \/ \E text \in ResponseTexts : MainRunTurnReturns(text)
    \/ MainRunTurnRaises
    \/ MainCancelled
    \/ RunnerShutdown
    \/ MainTurnSpeak
    \/ MainTurnSpoken
    \/ MainTurnEnd
    \/ ProWake
    \/ ProLockGranted
    \/ \E text \in ResponseTexts : ProRunTurnReturns(text)
    \/ ProRunTurnRaises
    \/ ProSpeak
    \/ ProSpoken
    \/ ProTurnEnd
    \/ SpeakerDequeue(1)
    \/ \E ok \in BOOLEAN : SpeakerPlayEnds(1, ok)
    \/ SpeakerLevelJoined(1)
    \/ SpeakerHoldoff(1)

Spec == Init /\ [][Next]_vars

\* ----------- SpecProactive: proactive_loop against main()'s user turns, five ticks
\* The state main() reaches when the intro has been played and the input stream
\* started at once: the intro's request is finished, EchoGuard cleared, the
\* proactive task asleep since the start.
AfterIntro ==
    /\ now = 0
    /\ InitEcho
    /\ speak_queue = [made |-> TRUE, items |-> <<>>]
    /\ requests = << [NewRequest(IntroText) EXCEPT !.done = TRUE, !.resolved = 1,
                        !.stage = "finished", !.returned = TRUE] >>
    /\ loops = << NewLoop >>
    /\ caller_pc = [c \in Callers |-> "idle"]
    /\ caller_req = [c \in Callers |-> NoItem]
    /\ calls_made = 0
    /\ last_end = 0
    /\ stream = "active"
    /\ pattern = <<>>
    /\ frame_no = 0
    /\ buffer = <<>>
    /\ speech_started = FALSE
    /\ silence_frames = 0
    /\ utterances = <<>>
    /\ whisper_next = 1
    /\ transcript_queue = [made |-> TRUE, items |-> <<>>]
    /\ yielded = <<>>
    /\ last_gated_frame = 0
    /\ buffer_overlap = FALSE
    /\ gate_dropped = FALSE
    /\ main_pc = "next"
    /\ main_req = 1
    /\ main_text = <<>>
    /\ turn_lock = [locked |-> FALSE, waiters |-> <<>>]
    /\ display = "idle"
    /\ last_turn_end_time = 0
    /\ last_transcript_key = <<>>
    /\ last_transcript_time = 0
    /\ elapsed = 0
    /\ turns = 0
    /\ InitPro("sleep")
    /\ InitGhost

\* time passes on the scale of the proactive interval; the event loop is free
\* whenever every task awaits, so a sleep of proactive_loop that is over ends
\* before more time passes
ProTick ==
    /\ now + ProTickMs <= MaxProTime
    /\ pro_pc = "sleep" => now < pro_wake
    /\ \A l \in 1..Len(loops) : loops[l].pc # "set_holdoff"
    /\ now' = now + ProTickMs
    /\ UNCHANGED <<echo_vars, speak_vars, caller_vars, hist_vars>>
    /\ UNCHANGED capture_vars
    /\ UNCHANGED <<sched_vars, pro_vars>>
    /\ UNCHANGED ghost_vars

NextProactive ==
    \/ ProTick
    \/ \E text \in TranscriptTexts : TranscriptArrives(text)
    \/ MainNextTranscript
    \/ MainTurnLockGranted
    \/ \E text \in ResponseTexts : MainRunTurnReturns(text)
    \/ MainTurnSpeak
    \/ MainTurnSpoken
    \/ MainTurnEnd
    \/ ProWake
    \/ ProLockGranted
    \/ \E text \in ResponseTexts : ProRunTurnReturns(text)
    \/ ProRunTurnRaises
    \/ ProSpeak
    \/ ProSpoken
    \/ ProTurnEnd
    \/ SpeakerDequeue(1)
    \/ SpeakerPlayEnds(1, TRUE)
    \/ SpeakerLevelJoined(1)
    \/ SpeakerHoldoff(1)

SpecProactive == AfterIntro /\ [][NextProactive]_vars

\* ------------------------------------------------ the transcript loop alone
\* what the rider says in SpecDedupe
DedupeTexts == { <<"a">>, <<"A">>, <<"c">> }

\* time passes on the scale of the dedupe window; main() waiting for the next
\* transcript takes one that is in the queue before more time passes
DedupeTick ==
    /\ now + DedupeTickMs <= MaxDedupeTime
    /\ main_pc = "next" /\ turns < MaxDedupeTurns => transcript_queue.items = <<>>
    /\ \A l \in 1..Len(loops) : loops[l].pc # "set_holdoff"
    /\ now' = now + DedupeTickMs
    /\ UNCHANGED <<echo_vars, speak_vars, caller_vars, hist_vars>>
    /\ UNCHANGED capture_vars
    /\ UNCHANGED <<sched_vars, pro_vars>>
    /\ UNCHANGED ghost_vars

\* main.py 187-221 with the speaker loop: transcripts arrive while main() takes
\* them one by one and runs a turn on each that is not a duplicate
NextDedupe ==
    \/ DedupeTick
    \/ \E text \in DedupeTexts : TranscriptArrivesUpTo(text, MaxDedupeTranscripts)
    \/ NextTranscript(MaxDedupeTurns)
    \/ \E text \in ResponseTexts : MainRunTurnReturns(text)
    \/ MainTurnSpeak
    \/ MainTurnSpoken
    \/ MainTurnEnd
    \/ SpeakerDequeue(1)
    \/ SpeakerPlayEnds(1, TRUE)
    \/ SpeakerLevelJoined(1)
    \/ SpeakerHoldoff(1)

SpecDedupe == AfterIntro /\ [][NextDedupe]_vars

\* SpecDedupe with a run_turn that can raise and a session that can be cancelled
NextTurns ==
    \/ NextDedupe
    \/ MainRunTurnRaises
    \/ MainCancelled
    \/ RunnerShutdown

SpecTurns == AfterIntro /\ [][NextTurns]_vars

\* SpecDedupe with the scheduling the program has: the event loop runs every task
\* that is ready, so each step of main() and of the speaker loop that stays
\* enabled is taken.  The collaborators are not part of the program: nothing
\* makes run_turn's request (llm.py 546, awaited with no timeout) or the player
\* (audio_output.py 175-179, awaited with no timeout) return.
SpecTurnsFair ==
    /\ SpecDedupe
    /\ WF_vars(NextTranscript(MaxDedupeTurns))
    /\ WF_vars(MainTurnSpeak)
    /\ WF_vars(MainTurnSpoken)
    /\ WF_vars(MainTurnEnd)
    /\ WF_vars(SpeakerDequeue(1))
    /\ WF_vars(SpeakerLevelJoined(1))
    /\ WF_vars(SpeakerHoldoff(1))

\* ------------------------------------------------ the echo filter alone
\* an utterance of the agent long enough for a part of it to score below 0.70
EchoLong ==
    <<"a", "b", "c", "d", "e", "f", "g", "h", "i", "j", "k", "l", "m", "n", "o",
      "p", "q">>

\* what the agent says in SpecEcho
EchoUtterances == { EchoLong, <<"B">> }

\* what Whisper returns in SpecEcho: 9 and 8 characters out of EchoLong, and a
\* short text
EchoPart9 == SubSeq(EchoLong, 2, 10)
EchoPart8 == SubSeq(EchoLong, 2, 9)
EchoTranscripts == { EchoPart9, EchoPart8, <<"B">> }

\* audio_output.py 171: the speaker loop registers what it is about to play
EchoRegister(text) ==
    /\ Len(registered) < MaxEchoRegistered
    /\ recent_utterances' = RegisterUtterance(recent_utterances, text)
    /\ registered' = Append(registered, Strip(Lower(text)))
    /\ UNCHANGED <<now, is_speaking, holdoff_until, speak_vars, caller_vars, hist_vars>>
    /\ UNCHANGED capture_vars
    /\ UNCHANGED <<sched_vars, pro_vars>>
    /\ UNCHANGED <<passes, handled, whisper_log>>

\* audio_input.py 121-131 with echo_guard: utterances are registered, transcripts
\* are put, and the generator takes them one by one
NextEcho ==
    \/ \E text \in EchoUtterances : EchoRegister(text)
    \/ \E text \in EchoTranscripts : TranscriptArrivesUpTo(text, MaxEchoTranscripts)
    \/ StreamNext

SpecEcho == AfterIntro /\ [][NextEcho]_vars

\* --------------------------- SpecRegister: register_utterance called repeatedly
\* texts with an upper-case letter and with blanks around them
RegisterTexts == { <<"B">>, <<" ", "a", " ">>, <<"c">> }

NextRegister == \E text \in RegisterTexts : EchoRegister(text)

SpecRegister == AfterIntro /\ [][NextRegister]_vars

\* ======================================================================
\* Claims
\* ======================================================================
RequestIds == 1..Len(requests)

\* C2: at most one playback is in flight at any time.  A request is in service
\* from the moment a speaker loop dequeues it and opens its EchoGuard window
\* until that loop has closed the window with set_speaking(False, holdoff=True);
\* no two requests are in service together, and no two loops are past `get`.
C2_OnePlaybackInFlight ==
    /\ Cardinality({r \in RequestIds : InService(r)}) <= 1
    /\ Cardinality({l \in 1..Len(loops) : loops[l].pc # "get"}) <= 1

\* two callers are inside speak() at once: one request plays, the other waits
C2_Witness ==
    /\ \E r \in RequestIds : InService(r)
    /\ speak_queue.items # <<>>
    /\ \A c \in Callers : caller_pc[c] = "await_done"

\* C3: a speak(text) call with non-blank text has returned only if the speaker
\* loop has finished (or failed) playing that same request.
C3_ReturnsAfterPlayback ==
    \A r \in RequestIds : requests[r].returned => requests[r].stage = "finished"

\* a caller has returned from speak() while another request is still waiting
C3_Witness ==
    /\ \E r \in RequestIds : requests[r].returned
    /\ \E r \in RequestIds : requests[r].stage # "finished"

\* C4: every dequeued request, whether its playback returned or raised, ends
\* with is_speaking = FALSE, a fresh holdoff (now + 0.45 s at that moment) and
\* its future resolved exactly once; a failed playback leaves the loop running.
C4_EveryRequestClosed ==
    /\ \A r \in RequestIds :
          /\ requests[r].resolved <= 1
          /\ requests[r].stage = "finished" =>
                requests[r].resolved = 1 /\ requests[r].done
          /\ requests[r].stage # "finished" => requests[r].resolved = 0
    /\ \A l \in 1..Len(loops) : loops[l].pc \in {"get", "play", "wait_level", "set_holdoff"}
    /\ (\A l \in 1..Len(loops) : loops[l].pc = "get") /\ last_end >= 0 =>
          ~is_speaking /\ holdoff_until = last_end + HOLDOFF_MS

\* a request whose playback raised is finished, and a later request was served too
C4_Witness ==
    \E r1, r2 \in RequestIds :
        /\ r1 < r2
        /\ requests[r1].failed /\ requests[r1].stage = "finished"
        /\ requests[r2].stage = "finished" /\ ~requests[r2].failed

\* C5: is_gated() is true exactly when is_speaking is true or the current time
\* is strictly before holdoff_until.
C5_GatedIff == is_gated(now) <=> (is_speaking \/ now < holdoff_until)

\* the holdoff has just run out: not speaking, and now = holdoff_until
C5_Witness == ~is_speaking /\ last_end >= 0 /\ now = holdoff_until /\ ~is_gated(now)

FramesFromTo(a, b) == [i \in 1..(b - a + 1) |-> a + i - 1]

\* the microphone has never been gated so far
Ungated == last_gated_frame = 0

\* C7: a callback that runs while EchoGuard is gated leaves the buffer empty,
\* speech_started false and the silence counter 0, and dispatches nothing; no
\* frame delivered while gated, and no audio buffered before a gated frame, is
\* part of the buffer or of a dispatched utterance.
C7_GatedFrameDropsAll ==
    /\ frame_no > 0 /\ last_gated_frame = frame_no =>
          buffer = <<>> /\ ~speech_started /\ silence_frames = 0
    /\ buffer # <<>> => last_gated_frame < Head(buffer)
    /\ \A u \in 1..Len(utterances) :
          /\ utterances[u].gate_before < Head(utterances[u].frames)
          /\ \A i \in 1..Len(utterances[u].frames) :
                utterances[u].frames[i] = Head(utterances[u].frames) + i - 1

\* a gated callback dropped buffered audio, and an utterance captured after it
\* was dispatched
C7_Witness ==
    /\ gate_dropped
    /\ \E u \in 1..Len(utterances) : utterances[u].gate_before > 0

\* C9 as stated: frames 1-20 speech, 21-44 silence, ungated: one utterance,
\* holding frames 1-21.
C9_AsStated ==
    pattern = <<20, 24>> /\ Ungated /\ frame_no >= 44 =>
        Len(utterances) = 1 /\ utterances[1].frames = FramesFromTo(1, 21)

\* C9 amended: frames 1-20 speech, 21-44 silence, ungated: nothing is finalized
\* before frame 44, and at frame 44 exactly one utterance is finalized, holding
\* frames 1-44 (1320 ms: all 24 silence frames are in it).
C9_OneUtteranceAllFrames ==
    pattern = <<20, 24>> /\ Ungated =>
        /\ frame_no < 44 => utterances = <<>>
        /\ frame_no >= 44 =>
              /\ Len(utterances) = 1
              /\ utterances[1].frames = FramesFromTo(1, 44)
              /\ Len(utterances[1].frames) * CHUNK_MS = 1320

C9_Witness ==
    pattern = <<20, 24>> /\ Ungated /\ frame_no = 44 /\ Len(utterances) = 1

\* C10 as stated: 5 speech frames then silence, ungated: nothing is dispatched
\* to transcription.
C10_ShortSpeechNoUtterance ==
    pattern = <<5, 24>> /\ Ungated => utterances = <<>>

\* main() is between acquiring and releasing the turn lock (main.py 171-174, 207-221)
MainInTurn ==
    main_pc \in {"intro_layout", "intro_await_done", "turn_run", "turn_layout",
                 "turn_await_done", "turn_idle"}

\* on_proactive_trigger is between acquiring and releasing the turn lock (main.py 87-95)
ProInTurn == pro_pc \in {"run", "layout", "await_done", "idle"}

\* C1: at every moment at most one turn is inside the turn-lock critical section:
\* the startup intro or a user turn of main() and a proactive turn never overlap,
\* and a turn in progress holds the lock.
C1_OneTurnAtATime ==
    /\ ~(MainInTurn /\ ProInTurn)
    /\ MainInTurn \/ ProInTurn => turn_lock.locked

\* a proactive turn is speaking while a user turn waits for the lock
C1_Witness ==
    /\ pro_pc = "await_done"
    /\ main_pc = "turn_wait_lock"
    /\ \E r \in 1..Len(requests) : InService(r)


\* ------------------------------------------------------- proactive triggers
TriggerKeys == { TRIGGERS[k] : k \in 1..Len(TRIGGERS) }

\* how often the handler of key has been invoked so far
FiredCount(key) ==
    Cardinality({ pi \in (1..Len(passes)) \X (1..Len(TRIGGERS)) :
                    /\ pi[2] <= Len(passes[pi[1]].fired)
                    /\ passes[pi[1]].fired[pi[2]] = key })

\* the predicate of key on the context of a ride e seconds old
PredAt(key, e) == Condition(key, get_ride_context(e))

\* key is the first trigger in table order that is not offered yet and whose
\* predicate is true, given the keys offered before and the ride's age
FirstEligible(key, before, e) ==
    /\ key \notin before
    /\ PredAt(key, e)
    /\ \A j \in 1..Len(TRIGGERS) :
          (\E k \in (j + 1)..Len(TRIGGERS) : TRIGGERS[k] = key) =>
              TRIGGERS[j] \in before \/ ~PredAt(TRIGGERS[j], e)

\* the evaluation ticks that are over
DonePasses ==
    IF pro_pc \in {"sleep", "off", "cancelled"} THEN 1..Len(passes)
    ELSE 1..(Len(passes) - 1)

\* key's predicate was true at the five consecutive ticks that end with tick p
TrueAtFiveTicks(key, p) ==
    /\ p \in DonePasses
    /\ p >= 5
    /\ \A q \in (p - 4)..p : PredAt(key, passes[q].e)

\* C11: the handler is invoked at most once per trigger key, and a key whose
\* handler has been invoked is in `offered` from then on.
C11_AtMostOncePerKey ==
    \A key \in TriggerKeys :
        /\ FiredCount(key) <= 1
        /\ FiredCount(key) = 1 => key \in offered

\* boarding fired at an earlier tick; at a later tick the gate is open and the
\* predicate of boarding still true, and boarding has not fired again
C11_Witness ==
    /\ Len(passes) >= 3
    /\ FiredCount("boarding") = 1
    /\ passes[Len(passes)].gate
    /\ PredAt("boarding", passes[Len(passes)].e)
    /\ "boarding" \in passes[Len(passes)].before
    /\ pro_pc = "sleep"

\* C12 as stated: a proactive turn executes only when 45 s have passed since the
\* last turn ended.
C12_RunsOnlyAfterSilence ==
    pro_pc = "run" => (now - last_turn_end_time) >= PROACTIVE_MIN_SILENCE_MS

\* C13 as stated: a trigger whose predicate was true at 5 consecutive ticks has
\* fired exactly once and is in `offered`.
C13_AsStated ==
    \A key \in TriggerKeys : \A p \in 1..Len(passes) :
        TrueAtFiveTicks(key, p) => FiredCount(key) = 1 /\ key \in offered

\* C13 amended: a trigger whose predicate was true at 5 consecutive ticks has
\* fired at most once, is in `offered` exactly if it has fired, has fired only
\* at a tick with the gate open, and has fired if at one of the five ticks the
\* gate was open and it was the first eligible trigger in table order.
C13_SingleFire ==
    \A key \in TriggerKeys : \A p \in 1..Len(passes) :
        TrueAtFiveTicks(key, p) =>
            /\ FiredCount(key) <= 1
            /\ FiredCount(key) = 1 <=> key \in offered
            /\ \A q \in 1..Len(passes) :
                  (\E i \in 1..Len(passes[q].fired) : passes[q].fired[i] = key)
                      => passes[q].gate
            /\ (\E q \in (p - 4)..p :
                   passes[q].gate /\ FirstEligible(key, passes[q].before, passes[q].e))
                   => FiredCount(key) = 1

\* long_ride was true at five ticks, deferred behind boarding, and fired once
C13_Witness ==
    /\ TrueAtFiveTicks("long_ride", 5)
    /\ FiredCount("long_ride") = 1
    /\ FiredCount("boarding") = 1
    /\ ~passes[1].gate

\* the step is an evaluation tick of proactive_loop
IsTick == Len(passes') = Len(passes) + 1

\* the gate of main._proactive_can_run, from the clock and the last turn end
GateOpenNow == (now - last_turn_end_time) >= PROACTIVE_MIN_SILENCE_MS

C15_OnePerTick ==
    \A p \in 1..Len(passes) :
        /\ Len(passes[p].fired) <= 1
        /\ Len(passes[p].fired) = 1 =>
              FirstEligible(passes[p].fired[1], passes[p].before, passes[p].e)


\* ------------------------------------------------------- transcript dedupe
\* the last transcript before the j-th one handled that started a turn, or 0
PrevStarted(j) ==
    LET S == { i \in 1..(j - 1) : handled[i].started }
    IN  IF S = {} THEN 0 ELSE CHOOSE i \in S : \A k \in S : k <= i

\* C16 as stated: of two transcripts with the same trimmed, lower-cased text and
\* no different transcript processed between them, the second starts a turn
\* exactly if it arrives 8 s or more after the first.
C16_DedupeByArrival ==
    \A j \in 1..Len(handled) :
        LET i == PrevStarted(j)
        IN  (i # 0 /\ handled[i].key = handled[j].key) =>
                (handled[j].started <=>
                    handled[j].ts - handled[i].ts >= TRANSCRIPT_DEDUPE_MS)

\* ------------------------------------------------------------ echo filter
\* the up to RECENT_SPEECH_WINDOW utterances registered last
LastRegistered ==
    SubSeq(registered, Max(1, Len(registered) - RECENT_SPEECH_WINDOW + 1),
           Len(registered))

\* the similarity ratio of the lower-cased, trimmed text with u is at least 0.70,
\* or the text is longer than 8 characters and a part of u
EchoOf(text, u) ==
    LET t == Strip(Lower(text))
    IN  \/ RatioAtLeastThreshold(t, u)
        \/ Len(t) > 8 /\ IsSubstring(t, u)

\* the step takes the oldest transcript from the queue
StreamTakes ==
    /\ transcript_queue.items # <<>>
    /\ transcript_queue'.items = Tail(transcript_queue.items)

MainInUserTurn ==
    main_pc \in {"turn_run", "turn_layout", "turn_await_done", "turn_idle"}

\* the step invokes run_turn for a user turn, for a proactive turn
MainInvokesRunTurn == main_pc # "turn_run" /\ main_pc' = "turn_run"
ProInvokesRunTurn ==
    pro_pc' = "run" /\ (pro_pc # "run" \/ passes' # passes)

\* the step calls speak from a user turn, from a proactive turn
MainCallsSpeak == main_pc = "turn_layout" /\ main_pc' = "turn_await_done"
ProCallsSpeak == pro_pc = "layout" /\ pro_pc' = "await_done"

\* the step leaves the `async with _turn_lock` block of a user turn, of a
\* proactive turn
MainLeavesTurn == MainInUserTurn /\ ~MainInUserTurn'
ProLeavesTurn == ProInTurn /\ (~ProInTurn' \/ passes' # passes)

\* the turn has got its text from run_turn, speak has returned if it was called,
\* and the idle layout is up
MainTurnComplete ==
    /\ main_pc = "turn_idle"
    /\ display = "idle"
    /\ main_text # <<>> => requests[main_req].text = main_text
                            /\ requests[main_req].returned
ProTurnComplete ==
    /\ pro_pc = "idle"
    /\ display = "idle"
    /\ pro_text # <<>> => requests[pro_req].text = pro_text
                           /\ requests[pro_req].returned

\* run_turn is invoked and speak is called with the lock held and the other
\* task outside its turn
LockHeldForTurn ==
    /\ MainInvokesRunTurn \/ MainCallsSpeak => turn_lock'.locked /\ ~ProInTurn'
    /\ ProInvokesRunTurn \/ ProCallsSpeak => turn_lock'.locked /\ ~MainInTurn'

MainWindowOpen ==
    main_pc \in {"intro_layout", "intro_await_done", "turn_layout", "turn_await_done"}
ProWindowOpen == pro_pc \in {"layout", "await_done"}

\* C19: the "speaking" display windows of different turns never overlap: between
\* a turn's "speaking" push and its own "idle" push no other turn pushes
\* "speaking", so main() (intro or user turn) and the proactive turn are never
\* both inside a window.
C19_NoOverlappingWindows == ~(MainWindowOpen /\ ProWindowOpen)

\* a user turn is speaking while a proactive turn waits for the lock
C19_Witness ==
    /\ main_pc = "turn_await_done"
    /\ pro_pc = "wait_lock"
    /\ display = "speaking"

\* the step is a failure of response generation in a user turn, a proactive turn
MainGenerationFails ==
    main_pc = "turn_run" /\ main_pc' \notin {"turn_run", "turn_layout", "turn_idle"}
ProGenerationFails ==
    /\ pro_pc = "run"
    /\ pro_pc' \notin {"layout", "idle"}
    /\ pro_pc' # "run" \/ passes' # passes

\* C20 as stated: when response generation fails during a turn, the turn produces
\* no speech and no display update, the turn lock is released, and the system
\* remains listening: the stream stays open, main() goes back to waiting for
\* transcripts and the proactive loop keeps running.
C20_FailedTurnKeepsListening ==
    [][MainGenerationFails \/ ProGenerationFails =>
          /\ requests' = requests
          /\ display' = display
          /\ MainGenerationFails => ~turn_lock'.locked /\ main_pc' = "next"
          /\ stream' = stream
          /\ pro_pc' # "cancelled"]_vars

\* ------------------------------------------------------ utterance finalization
\* the step is a callback on the next frame with the gate open
UngatedCallback == frame_no' = frame_no + 1 /\ ~is_gated(now')

\* C30: while ungated, a speech frame is appended, resets the silence counter to
\* zero and keeps the utterance open; a non-speech frame of an utterance in
\* progress that is not yet the 24th in a row is appended and counted; the 24th
\* in a row finalizes the utterance, and nothing else does.
C30_FinalizedAt24thSilence ==
    [][UngatedCallback =>
          LET f == frame_no'
          IN  IF IsSpeechFrame(pattern, f)
              THEN /\ silence_frames' = 0
                   /\ speech_started'
                   /\ buffer' = Append(buffer, f)
                   /\ utterances' = utterances
              ELSE IF speech_started /\ silence_frames + 1 < 24
              THEN /\ silence_frames' = silence_frames + 1
                   /\ speech_started'
                   /\ buffer' = Append(buffer, f)
                   /\ utterances' = utterances
              ELSE IF speech_started
              THEN /\ silence_frames + 1 = 24
                   /\ (silence_frames + 1) * CHUNK_MS >= SILENCE_MS
                   /\ silence_frames * CHUNK_MS < SILENCE_MS
                   /\ Len(utterances') = Len(utterances) + 1
                   /\ utterances'[Len(utterances')].frames = Append(buffer, f)
                   /\ silence_frames' = 0 /\ ~speech_started' /\ buffer' = <<>>
              ELSE utterances' = utterances /\ ~speech_started']_vars

\* speech in frames 3-15 after two idle frames, then silence: the utterance was
\* finalized at frame 39, the 24th silence frame, and holds frames 3-39
C30_Witness ==
    /\ pattern = <<0, 2, 13, 30>>
    /\ Ungated
    /\ frame_no = 39
    /\ Len(utterances) = 1
    /\ utterances[1].frames = FramesFromTo(3, 39)
    /\ buffer = <<>> /\ ~speech_started /\ silence_frames = 0

\* --------------------------------------------------- the gate around playback
\* a speaker loop is inside the playback of a request
PlaybackInFlight == \E l \in 1..Len(loops) : loops[l].pc = "play"

\* C27 as stated: while a playback is in flight is_speaking is true (capture is
\* gated) and the normalized text being played is registered with EchoGuard.
C27_GatedDuringPlayback ==
    \A l \in 1..Len(loops) :
        loops[l].pc = "play" =>
            /\ is_speaking
            /\ is_gated(now)
            /\ \E n \in 1..Len(recent_utterances) :
                  recent_utterances[n] = Strip(Lower(loops[l].text))

\* C28 as stated: a callback of the capture thread that runs while the player is
\* between the two assignments of set_speaking(False, holdoff=True) finds the
\* gate closed.
C28_NoUngatedRead ==
    [][(frame_no' = frame_no + 1
          /\ \E l \in 1..Len(loops) : loops[l].pc = "set_holdoff")
         => is_gated(now')]_vars

\* C29 as stated: when the transcript stream starts after the intro has been
\* spoken, the intro text is registered with EchoGuard, so that a transcript
\* matching the intro is an echo of a registered utterance.
C29_IntroStillRegistered ==
    [][(stream # "active" /\ stream' = "active") =>
          \E n \in 1..Len(recent_utterances') :
              /\ recent_utterances'[n] = Strip(Lower(IntroText))
              /\ EchoOf(IntroText, recent_utterances'[n])]_vars

\* ------------------------------------------------------------ session boundary
\* the step is the clear of main.py 183-185
SessionClear == main_pc = "intro_idle" /\ main_pc' = "load_model"

\* C26 as stated: after the clear before the transcript loop, EchoGuard, the
\* dedupe cache, the offered-trigger set and the pending queues all have their
\* empty or default values.
C26_AllResetAtBoundary ==
    [][SessionClear =>
          /\ ~is_speaking' /\ holdoff_until' = 0 /\ recent_utterances' = <<>>
          /\ last_transcript_key' = <<>> /\ last_transcript_time' = 0
          /\ offered' = {}
          /\ speak_queue'.items = <<>>
          /\ transcript_queue'.items = <<>>]_vars

\* what has been put on the delivery channel and not dropped as an echo, in the
\* order the consumer sees it
Delivered == yielded \o transcript_queue.items

DeliveredOf(u) == \E i \in 1..Len(Delivered) : Delivered[i].utt = u

\* C21: a transcription that fails puts nothing for its utterance and leaves the
\* pipeline running: the jobs end one by one in the order of the utterances, a
\* failed or empty job has no transcript, a job with a text has its transcript on
\* the channel or yielded, and an utterance that waits can be transcribed.
C21_FailureSkipsOneUtterance ==
    /\ Len(whisper_log) = whisper_next - 1
    /\ \A u \in 1..Len(whisper_log) :
          /\ whisper_log[u] \in {"failed", "empty"} => ~DeliveredOf(u)
          /\ whisper_log[u] = "text" => DeliveredOf(u)
    /\ whisper_next <= Len(utterances) =>
          ENABLED (\E ok \in BOOLEAN, text \in TranscriptTexts : Transcribe(ok, text))

\* C21: the first transcription failed, the second utterance was finalized after
\* that, transcribed and yielded
C21_Witness ==
    /\ whisper_log = <<"failed", "text">>
    /\ Len(utterances) = 2
    /\ Len(yielded) = 1
    /\ yielded[1].utt = 2

\* C22: transcripts are on the channel and yielded in the order in which their
\* utterances were finalized, whenever the transcriptions end.
C22_FinalizationOrder ==
    \A i, j \in 1..Len(Delivered) :
        i < j => /\ Delivered[i].utt < Delivered[j].utt
                 /\ Delivered[i].ts <= Delivered[j].ts

\* C22: three utterances were finalized before any was transcribed; the first has
\* been yielded and the other two wait on the channel in order
C22_Witness ==
    /\ Len(yielded) = 1
    /\ yielded[1].utt = 1
    /\ yielded[1].ts >= MaxWhisperFrames * CHUNK_MS
    /\ Len(transcript_queue.items) = 2
    /\ transcript_queue.items[1].utt = 2
    /\ transcript_queue.items[2].utt = 3

\* C24: once the stream has been started, however the transcript stream ends,
\* the input stream is stopped and closed and the queue reference dropped: they
\* go together, only when the consumer has ended, and a cancellation of the
\* consumer while it waits for a transcript releases them at once.
C24_StreamReleasedOnEveryExit ==
    [][/\ SessionEnded' => stream' = "closed" /\ ~transcript_queue'.made
       /\ stream' = "closed" =>
             ~transcript_queue'.made /\ main_pc' \in {"exited", "finished"}
       /\ (MainExits /\ main_pc = "next") =>
             stream' = "closed" /\ ~transcript_queue'.made]_vars

\* C24: a user turn failed with the stream active and a transcript waiting on the
\* channel; the session has ended with the stream closed and the queue dropped
C24_Witness ==
    /\ SessionEnded
    /\ turns = 1
    /\ last_turn_end_time = 0
    /\ stream = "closed"
    /\ ~transcript_queue.made

EchoGuardDefault ==
    ~is_speaking /\ holdoff_until = 0 /\ recent_utterances = <<>>

\* a playback goes on, with or without its speaker loop
PlaybackGoesOn == \E l \in 1..Len(loops) : loops[l].pc \in {"play", "orphaned"}

\* C25: at session end the audio device is stopped before the proactive
\* evaluator is cancelled, the speech queue is drained or cancelled after that
\* and EchoGuard is reset last: when the evaluator is cancelled the stream is
\* closed already, and after teardown the stream is closed, the evaluator
\* cancelled, the speech queue empty, no playback in flight and EchoGuard in its
\* default state.
C25_TeardownOrder ==
    [][/\ (MainExits /\ pro_pc' = "cancelled") => stream' = "closed"
       /\ SessionEnded' =>
             /\ stream' = "closed"
             /\ pro_pc' \in {"cancelled", "off"}
             /\ speak_queue'.items = <<>>
             /\ ~PlaybackGoesOn'
             /\ EchoGuardDefault']_vars

\* C23: every turn that acquires the turn lock eventually releases it, whether
\* or not the response generation and the playback ever return.
C23_LockEventuallyReleased == turn_lock.locked ~> ~turn_lock.locked

\* the callback is ungated, the frame is not speech, an utterance is in progress
\* and the silence threshold of line 89 is reached with this frame
FinalizingCallback ==
    /\ UngatedCallback
    /\ ~IsSpeechFrame(pattern, frame_no')
    /\ speech_started
    /\ (silence_frames + 1) * CHUNK_MS >= SILENCE_MS

\* C31: at finalization a buffer (the finalizing frame included) of less than
\* 400 ms is discarded without being dispatched and any other buffer is
\* dispatched exactly once, whole; in both cases the buffer, speech_started and
\* the silence counter are reset by the same callback.
C31_FinalizationDispatch ==
    [][FinalizingCallback =>
          LET buf == Append(buffer, frame_no')
          IN  /\ Len(buf) * CHUNK_MS < MIN_UTTERANCE_MS => utterances' = utterances
              /\ Len(buf) * CHUNK_MS >= MIN_UTTERANCE_MS =>
                    /\ Len(utterances') = Len(utterances) + 1
                    /\ SubSeq(utterances', 1, Len(utterances)) = utterances
                    /\ utterances'[Len(utterances')].frames = buf
              /\ buffer' = <<>>
              /\ ~speech_started'
              /\ silence_frames' = 0]_vars

\* C31: five speech frames and 24 silence frames, never gated: the buffer of 29
\* frames (870 ms) was dispatched once at frame 29 and the state is reset
C31_Witness ==
    /\ pattern = <<5, 24>>
    /\ Ungated
    /\ frame_no = 29
    /\ Len(utterances) = 1
    /\ Len(utterances[1].frames) * CHUNK_MS = 870
    /\ buffer = <<>>
    /\ ~speech_started
    /\ silence_frames = 0

\* a text as text.lower().strip() leaves it: no upper-case letter, no blank at
\* either end
LowerCasedAndTrimmed(e) ==
    /\ \A i \in 1..Len(e) : e[i] \notin {"A", "B"}
    /\ e # <<>> => e[1] # Space /\ e[Len(e)] # Space

\* C32: after n calls of register_utterance the buffer holds exactly the last
\* min(n, 5) registered texts, lower-cased and trimmed, in registration order;
\* it never holds more than 5.
C32_LastFiveRegistered ==
    LET n == Len(registered)
        m == IF n < 5 THEN n ELSE 5
    IN  /\ Len(recent_utterances) = m
        /\ Len(recent_utterances) <= RECENT_SPEECH_WINDOW
        /\ \A i \in 1..m :
              /\ recent_utterances[i] = registered[n - m + i]
              /\ LowerCasedAndTrimmed(recent_utterances[i])

\* C32: six texts were registered, "B" first and " a " second: the buffer holds
\* five, the oldest ("b") was dropped and "a" is now the first
C32_Witness ==
    /\ Len(registered) = 6
    /\ registered[1] = <<"b">>
    /\ Len(recent_utterances) = 5
    /\ recent_utterances[1] = <<"a">>
    /\ recent_utterances[5] = <<"b">>

\* C33: speak requests are played in the order in which they were enqueued, one
\* at a time, and their callers are released in that order: a request has left
\* the queue only when every earlier one is finished, at most one is playing,
\* and a caller has returned only when the callers of all earlier requests have.
C33_PlayedAndReleasedInOrder ==
    /\ \A r1, r2 \in 1..Len(requests) :
          r1 < r2 =>
             /\ requests[r2].stage # "queued" => requests[r1].stage = "finished"
             /\ requests[r2].returned => requests[r1].returned
    /\ Cardinality({r \in 1..Len(requests) : requests[r].stage = "playing"}) <= 1
    /\ \A i, j \in 1..Len(speak_queue.items) :
          i < j => speak_queue.items[i] < speak_queue.items[j]

\* C33: three requests of two callers: the first was played and its caller
\* released, the second is playing, the third waits in the queue behind it
C33_Witness ==
    /\ Len(requests) = 3
    /\ requests[1].stage = "finished" /\ requests[1].returned
    /\ requests[2].stage = "playing" /\ ~requests[2].done
    /\ requests[3].stage = "queued"
    /\ speak_queue.items = <<3>>
    /\ \A c \in Callers : caller_pc[c] = "await_done"

\* ------------------------------------------------- the audio-level envelope
\* _speaker_loop with lines 173-174 and 183-187 (the envelope task and its join)
\* taken out: where that loop is when the real one is at pc.  While the real
\* loop joins the envelope task, the other has still to leave its playback.
PcWithoutEnvelope(pc) ==
    IF pc = "wait_level" THEN "play"
    ELSE IF pc \in {"orphaned", "cancelled"} THEN "stopped"
    ELSE pc

DoneUnchanged ==
    \A r \in 1..Len(requests) : requests'[r].done = requests[r].done

\* what the loop without the envelope does to EchoGuard and to the futures in a
\* step that takes it from a to b: lines 171-172; 188, first assignment; 188,
\* second assignment, and 189-190; and, when the task is cancelled, the finally
\* block (188-190) run from the playback it is awaiting
StepWithoutEnvelope(l) ==
    LET a == PcWithoutEnvelope(loops[l].pc)
        b == PcWithoutEnvelope(loops'[l].pc)
        r == loops[l].item
    IN  IF a = b
        THEN UNCHANGED echo_vars /\ DoneUnchanged
        ELSE IF a = "get" /\ b = "play"
        THEN /\ recent_utterances' =
                   RegisterUtterance(recent_utterances, loops'[l].text)
             /\ is_speaking'
             /\ UNCHANGED holdoff_until
             /\ DoneUnchanged
        ELSE IF a = "play" /\ b = "set_holdoff"
        THEN /\ ~is_speaking'
             /\ UNCHANGED <<holdoff_until, recent_utterances>>
             /\ DoneUnchanged
        ELSE IF a = "set_holdoff" /\ b = "get"
        THEN /\ holdoff_until' = now + HOLDOFF_MS
             /\ UNCHANGED <<is_speaking, recent_utterances>>
             /\ requests'[r].done
        ELSE IF a = "play" /\ b = "stopped"
        THEN /\ ~is_speaking'
             /\ holdoff_until' = now + HOLDOFF_MS
             /\ UNCHANGED recent_utterances
             /\ requests'[r].done
        ELSE IF a = "get" /\ b = "stopped"
        THEN UNCHANGED echo_vars /\ DoneUnchanged
        ELSE FALSE

\* C34: the envelope does not affect gating: every step of the speaker loop
\* makes the EchoGuard transition and the resolution that the loop without the
\* envelope task makes, and no other; the envelope task writes nothing of
\* EchoGuard.
C34_EnvelopeIsCosmetic ==
    [][\A l \in 1..Len(loops) : loops'[l] # loops[l] => StepWithoutEnvelope(l)]_vars

\* the frames i..j of fr are all non-speech
NonSpeechRun(fr, i, j) == \A k \in i..j : ~IsSpeechFrame(pattern, fr[k])

\* C35: every utterance handed to transcription is a run of successive frames
\* that begins with a speech frame, ends with exactly 24 non-speech frames, has
\* no earlier run of 24 non-speech frames, holds at least 25 frames, and all its
\* frames were delivered after the last callback that found EchoGuard gated.
C35_UtteranceShape ==
    \A u \in 1..Len(utterances) :
        LET fr == utterances[u].frames
            n  == Len(fr)
        IN  /\ n >= 25
            /\ \A k \in 1..(n - 1) : fr[k + 1] = fr[k] + 1
            /\ IsSpeechFrame(pattern, fr[1])
            /\ NonSpeechRun(fr, n - 23, n)
            /\ IsSpeechFrame(pattern, fr[n - 24])
            /\ \A i \in 1..(n - 24) : ~NonSpeechRun(fr, i, i + 23)
            /\ fr[1] > utterances[u].gate_before

\* C35: speech, 23 silence frames, speech again, 24 silence frames, never gated:
\* one utterance of 49 frames that holds the run of 23 inside it
C35_Witness ==
    /\ pattern = <<1, 23, 1, 24>>
    /\ Len(utterances) = 1
    /\ utterances[1].gate_before = 0
    /\ utterances[1].frames = FramesFromTo(1, 49)

\* C36: every transcript the stream yields and dedupe does not suppress starts
\* exactly one user turn; transcripts delivered during a turn stay queued and are
\* taken one at a time, from the head, when main() is back at the stream and no
\* user turn is in progress; none leaves the queue in another way while the
\* session is not cancelled.
C36_OneTurnPerTranscript ==
    [][LET q  == transcript_queue.items
           q2 == transcript_queue'.items
           cancelled == main_pc = "next" /\ main_pc' = "exited"
       IN  /\ q2 # q =>
                 \/ Len(q2) = Len(q) + 1 /\ SubSeq(q2, 1, Len(q)) = q
                 \/ q # <<>> /\ q2 = Tail(q) /\ main_pc = "next" /\ ~MainInUserTurn
                 \/ cancelled
           /\ (q # <<>> /\ q2 = Tail(q) /\ ~cancelled) =>
                 /\ turns' \in {turns, turns + 1}
                 /\ turns' = turns + 1 <=>
                       /\ StreamYields(Head(q))
                       /\ ~transcript_seen_recently(Head(q).text, now)
           /\ turns' # turns =>
                 /\ q # <<>> /\ q2 = Tail(q)
                 /\ main_pc = "next"
                 /\ main_pc' \in {"turn_run", "turn_wait_lock"}]_vars

\* proactive.py 58-61: the step in which the handler of the trigger at pro_idx
\* raises out of run_turn; a handler that returns goes on to the layout instead
HandlerRaises ==
    /\ pro_pc = "run"
    /\ \/ pro_pc' \in {"sleep", "wait_lock", "cancelled"}
       \/ pro_pc' = "run" /\ pro_idx' # pro_idx

\* proactive.py 49-55: the triggers after position i that the for loop still finds
\* eligible, evaluated as the loop does when it goes on
RemainingEligible(i) ==
    { k \in (i + 1)..Len(TRIGGERS) :
        /\ TRIGGERS[k] \notin offered
        /\ Condition(TRIGGERS[k], pro_ctx)
        /\ proactive_can_run(now, last_turn_end_time) }

\* C37: when a trigger's handler raises, the trigger stays in offered (and
\* offered never shrinks, and only keys outside offered are fired, so it is
\* never fired again); the loop goes on: the next eligible trigger of the same
\* tick is fired, and with none left the loop sleeps for the next tick
C37_RaiseKeepsOfferedAndLoop ==
    [][/\ offered \subseteq offered'
       /\ \A p \in 1..Len(passes') :
             \A n \in 1..Len(passes'[p].fired) :
                (p > Len(passes) \/ n > Len(passes[p].fired)) =>
                    passes'[p].fired[n] \notin offered
       /\ HandlerRaises =>
             /\ TRIGGERS[pro_idx] \in offered'
             /\ IF RemainingEligible(pro_idx) = {}
                THEN /\ pro_pc' = "sleep"
                     /\ pro_wake' = now + INTERVAL_MS
                     /\ offered' = offered
                ELSE LET k == CHOOSE j \in RemainingEligible(pro_idx) :
                                 \A m \in RemainingEligible(pro_idx) : j <= m
                     IN  /\ pro_pc' \in {"run", "wait_lock"}
                         /\ pro_idx' = k
                         /\ offered' = offered \cup {TRIGGERS[k]}
                         /\ passes'[Len(passes')].fired =
                               Append(passes[Len(passes)].fired, TRIGGERS[k])]_vars

\* C37 witness: no turn has ever ended (the end-of-turn stamp is still the
\* start's), yet one tick has fired two triggers, so the handler of the first
\* raised and the rest of the tick was evaluated; a later tick has then been
\* evaluated with both keys still offered, and the loop sleeps again
C37_Witness ==
    /\ last_turn_end_time = 0
    /\ turns = 0
    /\ pro_pc = "sleep"
    /\ passes # <<>>
    /\ passes[Len(passes)].gate
    /\ \E p \in 1..(Len(passes) - 1) :
          /\ Len(passes[p].fired) >= 2
          /\ \A n \in 1..Len(passes[p].fired) :
                /\ passes[p].fired[n] \in passes[Len(passes)].before
                /\ passes[p].fired[n] \in offered

\* texts that are empty once stripped
BlankTexts == { <<>>, <<" ">>, <<" ", " ">> }

\* C38: dedupe knows only the last processed transcript and when it was marked:
\* a transcript main() receives is processed unless its normalized text is blank,
\* or equals that of the last PROCESSED transcript and comes less than 8 s after
\* that one was marked; suppressed transcripts and transcripts processed earlier
\* play no part.  A blank text is suppressed in every state.
C38_OnlyLastProcessedRemembered ==
    /\ \A j \in 1..Len(handled) :
          LET i == PrevStarted(j)
          IN  handled[j].started <=>
                 /\ handled[j].key # <<>>
                 /\ ~(/\ i # 0
                      /\ handled[i].key = handled[j].key
                      /\ handled[j].at - handled[i].at < TRANSCRIPT_DEDUPE_MS)
    /\ \A text \in BlankTexts : transcript_seen_recently(text, now)

\* C38 witness: the third transcript repeats the first less than 8 s after it was
\* processed, a different one was processed in between, and all three started a
\* turn
C38_Witness ==
    /\ Len(handled) = 3
    /\ handled[1].key = handled[3].key
    /\ handled[2].key # handled[1].key
    /\ handled[3].at - handled[1].at < TRANSCRIPT_DEDUPE_MS
    /\ \A j \in 1..3 : handled[j].started

\* the other case of C38: the second transcript repeats the first within 8 s and
\* is suppressed; the third repeats it 8 s after the first was marked, less than
\* 8 s after the suppressed one, and is processed
C38_NoRefresh ==
    /\ Len(handled) = 3
    /\ \A j \in 1..3 : handled[j].key = handled[1].key
    /\ handled[1].started /\ ~handled[2].started /\ handled[3].started
    /\ handled[3].at - handled[1].at >= TRANSCRIPT_DEDUPE_MS
    /\ handled[3].at - handled[2].at < TRANSCRIPT_DEDUPE_MS

\* text has a character that str.strip() keeps
HasVisibleChar(text) == \E i \in 1..Len(text) : text[i] # " "

\* C39: the speak queue and the speaker loop are created once, together, by the
\* first speak() with a non-blank text: there is never more than one speaker
\* loop task, the loop exists exactly when the queue does, and once they exist no
\* call makes another; a speak() with a blank text puts nothing on the queue
\* and leaves queue, requests and loops as they were.
C39_QueueAndLoopOnce ==
    /\ [](/\ Len(loops) <= 1
          /\ speak_queue.made <=> Len(loops) = 1
          /\ speak_queue.made <=> requests # <<>>
          /\ \A r \in 1..Len(requests) : HasVisibleChar(requests[r].text))
    /\ [][/\ speak_queue.made => speak_queue'.made /\ Len(loops') = Len(loops)
          /\ Len(loops') >= Len(loops)
          /\ (calls_made' # calls_made /\ Len(requests') = Len(requests)) =>
                UNCHANGED <<speak_queue, requests, loops>>]_vars

\* C39 witness: both callers are inside speak() at once with non-blank texts, a
\* blank call has been made as well, and there is one queue and one loop
C39_Witness ==
    /\ \A c \in Callers : caller_pc[c] = "await_done"
    /\ Len(requests) = 2
    /\ calls_made = 3
    /\ speak_queue.made
    /\ Len(loops) = 1

\* the speaker loop is between playbacks
SpeakerIdle == \A l \in 1..Len(loops) : loops[l].pc = "get"

\* C6 as stated: after set_speaking(False, holdoff=True) at time T (last_end),
\* is_gated() is true at every time in [T, T + 0.45 s) and, with no new speech,
\* false from T + 0.45 s on; the startup intro's playback end included.
C6_HoldoffAfterEveryPlayback ==
    last_end >= 0 =>
        /\ now < last_end + HOLDOFF_MS => is_gated(now)
        /\ now >= last_end + HOLDOFF_MS /\ SpeakerIdle => ~is_gated(now)

\* C8 as stated: no transcript the stream has yielded comes from an utterance
\* with a frame captured while the system was speaking or in holdoff.
C8_NoOverlappingTranscriptYielded ==
    \A i \in 1..Len(yielded) : ~utterances[yielded[i].utt].overlap

=============================================================================
